---- MODULE Spec2Model ----
(***************************************************************************)
(* Result cache of the Kenny Gem Finder backend.                           *)
(*                                                                         *)
(*   backend/database_service.py  DatabaseService: normalize_query,        *)
(*       _get_dynamic_ttl, get_cached_search, _transform_cached_search,    *)
(*       cache_search_results                                              *)
(*   backend/main.py              db_service, search_products              *)
(*   backend/clear_cache.py       administrative purge                     *)
(*                                                                         *)
(* The Supabase tables search_queries, products and product_search_results *)
(* are the shared store.  Every .execute() is one storage operation that   *)
(* either answers or raises; callers in different processes interleave     *)
(* between storage operations.  Time is counted in hours.                  *)
(***************************************************************************)
EXTENDS Integers, Sequences, FiniteSets, TLC

VARIABLES
    now,              \* wall clock, hours
    ticks,            \* index of the clock in its schedule
    search_queries,   \* table search_queries: set of rows
    products,         \* table products: set of rows
    links,            \* table product_search_results: set of rows
    nextId,           \* next serial id of search_queries
    nextPid,          \* next serial id of products
    proc,             \* per caller: position and locals of the running call
    ret,              \* per caller: what the last finished call returned
    hits,             \* per search row id: number of gets that returned it
    upstream_runs,    \* number of upstream searches started
    served,           \* fresh responses sent by search_products: key and time
    k1, k2,           \* a pair of raw queries and filters (key equivalence)
    agent_result,     \* the raw products of the last parsed agent result
    call              \* the last call of a scorer or catalogue function, with its result

vars == <<now, ticks, search_queries, products, links, nextId, nextPid,
          proc, ret, hits, upstream_runs, served, k1, k2, agent_result, call>>

-----------------------------------------------------------------------------
(* Bounds *)

MaxTicks == 7        \* clock positions after the start
MaxRows == 2         \* rows ever inserted into search_queries
MaxAccess == 7       \* gets are issued while the selected count is below this
MaxLen == 3          \* length of a raw query string
MaxRequests == 3     \* upstream searches started
MaxDupTicks == 2     \* clock positions while duplicate entries are stored
MaxDupAccess == 2    \* access count reached while duplicate entries are stored

NumProcs == 2        \* concurrent callers
AllProcs == 1..NumProcs

None == "None"       \* Python None / SQL NULL for text values
NoNum == -1          \* Python None / SQL NULL for numeric values

-----------------------------------------------------------------------------
(* Query strings: sequences of characters *)

Chars == {"a", "A", " "}

RECURSIVE StringsUpTo(_)
StringsUpTo(n) ==
    IF n = 0 THEN {<<>>}
    ELSE LET S == StringsUpTo(n - 1)
         IN S \cup {Append(s, c) : s \in {x \in S : Len(x) = n - 1}, c \in Chars}

\* str.lower() on one character
LowerChar(c) == IF c = "A" THEN "a" ELSE c

IsSpace(c) == c = " "

lower(s) == [i \in 1..Len(s) |-> LowerChar(s[i])]

RECURSIVE lstrip(_)
lstrip(s) == IF s # <<>> /\ IsSpace(Head(s)) THEN lstrip(Tail(s)) ELSE s

RECURSIVE rstrip(_)
rstrip(s) ==
    IF s # <<>> /\ IsSpace(s[Len(s)]) THEN rstrip(SubSeq(s, 1, Len(s) - 1)) ELSE s

strip(s) == rstrip(lstrip(s))

\* DatabaseService.normalize_query: query.lower().strip()
normalize_query_strip_only(query) == strip(query)

normalize_query(query) == strip(lower(query))

\* DatabaseService.get_query_hash: md5 of the canonical JSON of the three
\* parameters; the digest is modelled by the (injective) tuple it is taken of.
get_query_hash(query, tier_preference, max_price) ==
    <<max_price, normalize_query(query), tier_preference>>

-----------------------------------------------------------------------------
(* Popularity tiers *)

cache_ttl_popular_hours == 168
cache_ttl_normal_hours == 24
cache_ttl_niche_hours == 72

\* DatabaseService._get_dynamic_ttl
_get_dynamic_ttl_gt5(access_count) ==
    IF access_count > 5 THEN cache_ttl_popular_hours
    ELSE IF access_count >= 2 THEN cache_ttl_niche_hours
    ELSE cache_ttl_normal_hours

\* the tiers as the comments of lines 27-29 describe them: niche is 1-2
_get_dynamic_ttl_niche_1_2(access_count) ==
    IF access_count >= 5 THEN cache_ttl_popular_hours
    ELSE IF access_count \in 1..2 THEN cache_ttl_niche_hours
    ELSE cache_ttl_normal_hours

_get_dynamic_ttl(access_count) ==
    IF access_count >= 5 THEN cache_ttl_popular_hours
    ELSE IF access_count >= 2 THEN cache_ttl_niche_hours
    ELSE cache_ttl_normal_hours

-----------------------------------------------------------------------------
(* Clock *)

\* The instants at which the clock is observed: the popularity-tier
\* boundaries (24h, 72h, 168h), one hour past each, and 100h.
TimeAt(k) ==
    CASE k = 0 -> 0
      [] k = 1 -> 24
      [] k = 2 -> 25
      [] k = 3 -> 72
      [] k = 4 -> 73
      [] k = 5 -> 100
      [] k = 6 -> 168
      [] k = 7 -> 169
      [] OTHER -> 169 + (k - 7) * 24

-----------------------------------------------------------------------------
(* Upstream results: SearchResponse.results, flattened as all_products *)

\* A Product built by the pydantic models is always well-formed.
Prod(tier, name) == [tier |-> tier, name |-> name, brand |-> "B"]

Results ==
    { <<Prod("good", "P1")>>,
      <<Prod("better", "P1"), Prod("best", "P2")>> }

\* Raw products as the agent returns them (good_tier, better_tier and
\* best_tier, one after the other); price and lifespan may be missing or
\* not positive.
RawProd(tier, name, price, lifespan) ==
    [tier |-> tier, name |-> name, brand |-> "B", price |-> price,
     lifespan |-> lifespan]

RawBatches ==
    { <<RawProd("good", "P1", 10, 5), RawProd("good", "P1", 10, 5),
        RawProd("best", "P2", 10, NoNum)>>,
      <<RawProd("good", "P1", 0, 5), RawProd("better", "P2", 10, 5)>>,
      <<RawProd("good", "P1", 10, 5), RawProd("better", "P2", 10, 0),
        RawProd("best", "P3", 10, 5)>>,
      <<RawProd("good", "P3", NoNum, 5), RawProd("better", "P2", -5, 5),
        RawProd("best", "P1", 10, 5)>> }

\* ValueMetrics.calculate: ValueError unless price > 0 and lifespan > 0
ValueMetrics_calculate_any(price, lifespan) ==
    [error |-> FALSE, upfront_price |-> price, expected_lifespan_years |-> lifespan]

ValueMetrics_calculate(price, lifespan) ==
    IF lifespan <= 0 \/ price <= 0
    THEN [error |-> TRUE, upfront_price |-> price, expected_lifespan_years |-> lifespan]
    ELSE [error |-> FALSE, upfront_price |-> price, expected_lifespan_years |-> lifespan]

\* main.py _parse_tier_results.parse_product_list: a product without a
\* price is skipped, a missing lifespan becomes 5 years, and a product whose
\* construction raises is skipped by the `except Exception: continue`.
RECURSIVE parse_product_list(_)
parse_product_list(products_data) ==
    IF products_data = <<>> THEN <<>>
    ELSE LET product_data == Head(products_data)
             rest == parse_product_list(Tail(products_data))
             lifespan == IF product_data.lifespan = NoNum THEN 5
                         ELSE product_data.lifespan
         IN IF product_data.price = NoNum THEN rest
            ELSE IF ValueMetrics_calculate(product_data.price, lifespan).error THEN rest
            ELSE <<Prod(product_data.tier, product_data.name)>> \o rest

\* main.py _parse_tier_results: the three tier lists, parsed one by one
_parse_tier_results(agent_data) == parse_product_list(agent_data)

\* Columns of products that were added to the table after its first rows
\* (quality_data, practical_metrics, characteristics, web_sources and the
\* derived costs)
OptionalColumns ==
    {"quality_data", "practical_metrics", "characteristics", "web_sources",
     "cost_per_year", "cost_per_day"}

\* A products row written under an older schema version: the columns in
\* `nulls` are NULL in it, the columns in `absent` are not in the table
\* (and so not among the keys of the row the store returns).
LegacyRow(nulls, absent) ==
    [id |-> 1, name |-> "P1", brand |-> "B", tier |-> "good",
     nulls |-> nulls, absent |-> absent]

LegacyRows ==
    {LegacyRow({}, {})}
        \cup {LegacyRow({c}, {}) : c \in OptionalColumns}
        \cup {LegacyRow({}, {c}) : c \in OptionalColumns}

\* key_features is NULL, so Product(...) in _transform_cached_search
\* rejects the row (min_length=1).
LegacyProduct == LegacyRow({"key_features"}, {})

-----------------------------------------------------------------------------
(* Store queries *)

\* Python truthiness of the optional filters
TruthyTier(t) == t # None /\ t # ""
TruthyPrice(mp) == mp # NoNum /\ mp # 0

\* search_queries rows selected by get_cached_search's query builder
Matching(query, tier_preference, max_price) ==
    { r \in search_queries :
        /\ r.normalized_query = normalize_query(query)
        /\ (TruthyTier(tier_preference) => r.tier_preference = tier_preference)
        /\ (TruthyPrice(max_price) => (r.max_price # NoNum /\ r.max_price <= max_price)) }

\* the embedded product_search_results(*, products(*)) of one search row
Items(search_id) ==
    UNION { { [tier |-> l.tier, product |-> pr] :
                pr \in {x \in products : x.id = l.product_id} } :
            l \in {x \in links : x.search_query_id = search_id} }

\* _transform_cached_search, lines 138-208, on one products row.
\* product_data.get(key, default) yields the default for an absent key and
\* None for a NULL: float(None) and `for source in None` raise TypeError,
\* Product(characteristics=None) and Product(key_features=None or [])
\* raise a validation error; `if product_data.get("quality_data")` and
\* `if product_data.get("practical_metrics")` skip a NULL.
RowHydrates(product_data) ==
    /\ "cost_per_year" \notin product_data.nulls
    /\ "cost_per_day" \notin product_data.nulls
    /\ "web_sources" \notin product_data.nulls
    /\ "characteristics" \notin product_data.nulls
    /\ "key_features" \notin product_data.nulls \cup product_data.absent

\* _transform_cached_search returns a SearchResponse unless a row is rejected
Hydrates(items) == \A it \in items : RowHydrates(it.product)

\* the tier lists of the SearchResponse built by _transform_cached_search:
\* a product goes to the list named by the link's tier (lines 135, 210-215)
\* and carries the tier of its products row (line 195)
Transformed_by_product_tier(items) ==
    { [tier |-> it.product.tier, name |-> it.product.name, brand |-> it.product.brand,
       product_tier |-> it.product.tier] : it \in items }

Transformed(items) ==
    { [tier |-> it.tier, name |-> it.product.name, brand |-> it.product.brand,
       product_tier |-> it.product.tier] : it \in items }

Identity(r) == <<r.normalized_query, r.tier_preference, r.max_price>>

-----------------------------------------------------------------------------
(* Callers *)

NoSel == [id |-> 0, created_at |-> 0, access_count |-> 0, age |-> 0,
          newest |-> TRUE, items |-> {}]

Idle == [pc |-> "idle", caller |-> "direct", query |-> <<>>, tier |-> None,
         max_price |-> NoNum, sel |-> NoSel, response |-> <<>>, i |-> 0,
         search_id |-> 0, product_id |-> 0, prior |-> FALSE, failed |-> FALSE,
         link_fault |-> FALSE]

NoRet == [op |-> "none", result |-> "none", id |-> 0, count0 |-> 0, age |-> 0,
          at |-> 0, newest |-> TRUE, failed |-> FALSE, items |-> {},
          query |-> <<>>, prior |-> FALSE, link_fault |-> FALSE]

\* no scorer or catalogue function has been called yet
NoCall == [fn |-> "none"]

\* main.py: db_service = None ("Cache DISABLED for testing")
db_service == FALSE

\* what get_cached_search's `except Exception` returns: None
GetOnException_raise == "Raised"

GetOnException == "Miss"

\* what cache_search_results' `except Exception` returns: False
PutOnException_raise == "Raised"

PutOnException == "False"

Init ==
    /\ now = 0
    /\ ticks = 0
    /\ search_queries = {}
    /\ products \in {{}, {LegacyProduct}}
    /\ links = {}
    /\ nextId = 1
    /\ nextPid = 2
    /\ proc = [p \in AllProcs |-> Idle]
    /\ ret = [p \in AllProcs |-> NoRet]
    /\ hits = [i \in 1..MaxRows |-> 0]
    /\ upstream_runs = 0
    /\ served = {}
    /\ k1 = <<<<>>, None, NoNum>>
    /\ k2 = <<<<>>, None, NoNum>>
    /\ agent_result = <<>>
    /\ call = NoCall

-----------------------------------------------------------------------------
(* Returning from a call *)

Key(q, t, mp) == <<normalize_query(q), t, mp>>

\* an earlier identical request was answered fresh within the shortest TTL
Prior(q, t, mp) ==
    \E s \in served : s.key = Key(q, t, mp) /\ now - s.at <= cache_ttl_normal_hours

Served(q, t, mp) ==
    {s \in served : s.key # Key(q, t, mp)} \cup {[key |-> Key(q, t, mp), at |-> now]}

\* search_products, after get_cached_search returned without a result:
\* "Cache miss. Performing fresh search..."  The await of get_adk_search
\* is the point where other requests run.
StartUpstream(p, q, t, mp, prior) ==
    /\ proc' = [proc EXCEPT ![p] = [Idle EXCEPT !.pc = "upstream", !.caller = "handler",
                                    !.query = q, !.tier = t, !.max_price = mp,
                                    !.prior = prior]]
    /\ upstream_runs' = upstream_runs + 1
    /\ ret' = [ret EXCEPT ![p] = NoRet]
    /\ UNCHANGED served

\* get_cached_search returns `result` ("Hit", "Miss" or "Raised") to its caller
GetReturn(p, caller, q, t, mp, prior, result, row, failed, items) ==
    LET r == [op |-> "get", result |-> result, id |-> row.id,
              count0 |-> row.access_count, age |-> row.age,
              at |-> now, newest |-> row.newest, failed |-> failed, items |-> items, query |-> q, prior |-> prior]
    IN IF caller = "direct"
       THEN /\ proc' = [proc EXCEPT ![p] = Idle]
            /\ ret' = [ret EXCEPT ![p] = r]
            /\ UNCHANGED <<upstream_runs, served>>
       ELSE IF result = "Hit"
       THEN \* search_products returns cached_result, search_metadata.cached = True
            /\ proc' = [proc EXCEPT ![p] = Idle]
            /\ ret' = [ret EXCEPT ![p] = [r EXCEPT !.op = "search", !.result = "cached"]]
            /\ UNCHANGED <<upstream_runs, served>>
       ELSE IF result = "Miss"
       THEN StartUpstream(p, q, t, mp, prior)
       ELSE \* the exception reaches search_products' handler: HTTP 500
            /\ proc' = [proc EXCEPT ![p] = Idle]
            /\ ret' = [ret EXCEPT ![p] = [r EXCEPT !.op = "search", !.result = "error"]]
            /\ UNCHANGED <<upstream_runs, served>>

-----------------------------------------------------------------------------
(* DatabaseService.get_cached_search *)

\* Lines 73-107: the select, the choice of response.data[0] and the expiry
\* test.  The query has no ORDER BY: which matching row comes first is not
\* fixed by the request.
GetSelectBody(p, caller, q, t, mp, prior) ==
    /\ UNCHANGED <<now, ticks, search_queries, products, links, nextId, nextPid, hits, k1, k2, agent_result, call>>
    /\ \E outcome \in {"ok", "error"} :
         IF outcome = "error"
         THEN GetReturn(p, caller, q, t, mp, prior, GetOnException, NoSel, TRUE, {})
         ELSE IF Matching(q, t, mp) = {}
         THEN GetReturn(p, caller, q, t, mp, prior, "Miss", NoSel, FALSE, {})
         ELSE \E cached_search \in Matching(q, t, mp) :
                LET access_count == cached_search.access_count
                    ttl_hours == _get_dynamic_ttl(access_count)
                    cache_cutoff == now - ttl_hours
                    sel == [id |-> cached_search.id,
                            created_at |-> cached_search.created_at,
                            access_count |-> access_count,
                            age |-> now - cached_search.created_at,
                            newest |-> \A r \in Matching(q, t, mp) :
                                          r.created_at <= cached_search.created_at,
                            items |-> Items(cached_search.id)]
                IN IF access_count = NoNum
                   THEN \* _get_dynamic_ttl(None): TypeError
                        GetReturn(p, caller, q, t, mp, prior, GetOnException, sel, TRUE, {})
                   ELSE IF cached_search.created_at < cache_cutoff
                   THEN GetReturn(p, caller, q, t, mp, prior, "Miss", sel, FALSE, {})
                   ELSE /\ proc' = [proc EXCEPT ![p] =
                                 [Idle EXCEPT !.pc = "get_update", !.caller = caller,
                                              !.query = q, !.tier = t, !.max_price = mp,
                                              !.sel = sel, !.prior = prior]]
                        /\ ret' = [ret EXCEPT ![p] = NoRet]
                        /\ UNCHANGED <<upstream_runs, served>>

\* a direct call of db.get_cached_search(query, tier_preference, max_price)
GetSelect(p, q, t, mp) ==
    /\ proc[p].pc = "idle"
    /\ GetSelectBody(p, "direct", q, t, mp, FALSE)

\* Line 110: new_access_count = access_count + 1
new_access_count_same(access_count) == access_count

new_access_count(access_count) == access_count + 1

\* Lines 109-123: the access-tracking update, then _transform_cached_search
\* on the rows fetched by the select.
GetUpdate(p) ==
    /\ proc[p].pc = "get_update"
    /\ UNCHANGED <<now, ticks, products, links, nextId, nextPid, k1, k2, agent_result, call>>
    /\ LET me == proc[p]
           sel == me.sel
       IN \E outcome \in {"ok", "error"} :
            IF outcome = "error"
            THEN /\ UNCHANGED <<search_queries, hits>>
                 /\ GetReturn(p, me.caller, me.query, me.tier, me.max_price, me.prior,
                              GetOnException, sel, TRUE, {})
            ELSE /\ search_queries' =
                        { IF r.id = sel.id
                          THEN [r EXCEPT !.last_accessed_at = now,
                                         !.access_count = new_access_count(sel.access_count)]
                          ELSE r : r \in search_queries }
                 /\ IF Hydrates(sel.items)
                    THEN /\ hits' = [hits EXCEPT ![sel.id] = @ + 1]
                         /\ GetReturn(p, me.caller, me.query, me.tier, me.max_price, me.prior,
                                      "Hit", sel, FALSE, Transformed(sel.items))
                    ELSE /\ UNCHANGED hits
                         /\ GetReturn(p, me.caller, me.query, me.tier, me.max_price, me.prior,
                                      GetOnException, sel, TRUE, {})

-----------------------------------------------------------------------------
(* DatabaseService.cache_search_results *)

\* search_products' fresh response: search_metadata.cached = False
SearchReturn(p, result) ==
    LET me == proc[p]
    IN /\ proc' = [proc EXCEPT ![p] = Idle]
       /\ ret' = [ret EXCEPT ![p] = [NoRet EXCEPT !.op = "search", !.result = result,
                                                  !.at = now,
                                                  !.query = me.query, !.prior = me.prior]]
       /\ served' = IF result = "fresh" THEN Served(me.query, me.tier, me.max_price)
                    ELSE served
       /\ UNCHANGED upstream_runs

\* cache_search_results returns `result` ("True", "False" or "Raised").
\* search_products wraps the call in try/except and returns the fresh
\* response whatever happened (main.py 669-685).
PutReturn(p, me, result, failed) ==
    IF me.caller = "direct"
    THEN /\ proc' = [proc EXCEPT ![p] = Idle]
         /\ ret' = [ret EXCEPT ![p] = [NoRet EXCEPT !.op = "put", !.result = result,
                                                    !.id = me.search_id,
                                                    !.failed = failed,
                                                    !.link_fault = me.link_fault,
                                                    !.query = me.query]]
         /\ UNCHANGED <<upstream_runs, served>>
    ELSE /\ proc' = [proc EXCEPT ![p] = Idle]
         /\ ret' = [ret EXCEPT ![p] = [NoRet EXCEPT !.op = "search", !.result = "fresh",
                                                    !.failed = failed,
                                                    !.query = me.query, !.prior = me.prior]]
         /\ served' = Served(me.query, me.tier, me.max_price)
         /\ UNCHANGED upstream_runs

\* Lines 280-315: the insert into search_queries.  created_at and
\* last_accessed_at are filled by the table's defaults.
PutInsertSearchBody(p, caller, q, t, mp, response, prior) ==
    /\ UNCHANGED <<now, ticks, products, links, nextPid, hits, k1, k2>>
    /\ \E outcome \in {"ok", "error", "nodata"} :
         LET me == [Idle EXCEPT !.caller = caller, !.query = q, !.tier = t,
                                !.max_price = mp, !.response = response,
                                !.prior = prior]
             search_data == [id |-> nextId, normalized_query |-> normalize_query(q),
                             tier_preference |-> t, max_price |-> mp,
                             created_at |-> now, last_accessed_at |-> now,
                             access_count |-> 0]
         IN IF outcome = "ok"
            THEN /\ search_queries' = search_queries \cup {search_data}
                 /\ nextId' = nextId + 1
                 /\ IF Len(response) = 0
                    THEN PutReturn(p, [me EXCEPT !.search_id = nextId], "True", FALSE)
                    ELSE /\ proc' = [proc EXCEPT ![p] =
                                  [me EXCEPT !.pc = "put_select", !.i = 1,
                                             !.search_id = nextId]]
                         /\ ret' = [ret EXCEPT ![p] = NoRet]
                         /\ UNCHANGED <<upstream_runs, served>>
            ELSE /\ UNCHANGED <<search_queries, nextId>>
                 /\ PutReturn(p, me, IF outcome = "error" THEN PutOnException ELSE "False",
                              TRUE)

\* a direct call of db.cache_search_results(query, search_response, ...)
PutInsertSearch(p, q, t, mp, response) ==
    /\ proc[p].pc = "idle"
    /\ PutInsertSearchBody(p, "direct", q, t, mp, response, FALSE)
    /\ UNCHANGED <<agent_result, call>>

\* _parse_tier_results (main.py 511) followed by cache_search_results, as
\* search_products does in lines 670-679 when db_service is set: the agent's
\* raw products are parsed and the parsed response is stored
ParseAndCache(p, q, t, mp, raw) ==
    /\ proc[p].pc = "idle"
    /\ agent_result' = raw
    /\ UNCHANGED call
    /\ PutInsertSearchBody(p, "direct", q, t, mp, _parse_tier_results(raw), FALSE)

\* the loop `for tier, product in all_products` moves to its next element,
\* or the call returns True (line 425); link_fault: the link insert of this
\* element raised something other than a duplicate-key error
PutAdvance(p, failed, link_fault) ==
    IF proc[p].i < Len(proc[p].response)
    THEN /\ proc' = [proc EXCEPT ![p].pc = "put_select", ![p].i = @ + 1,
                                 ![p].product_id = 0,
                                 ![p].failed = @ \/ failed,
                                 ![p].link_fault = @ \/ link_fault]
         /\ UNCHANGED <<ret, upstream_runs, served>>
    ELSE PutReturn(p, [proc[p] EXCEPT !.link_fault = @ \/ link_fault], "True",
                   proc[p].failed \/ failed)

\* Lines 327-333: products.select("id").eq("name", ...).eq("brand", ...)
existing_product_same_tier(product) ==
    {x \in products : x.name = product.name /\ x.brand = product.brand
                       /\ x.tier = product.tier}

existing_product(product) ==
    {x \in products : x.name = product.name /\ x.brand = product.brand}

\* Lines 326-336: "Check if product exists"; existing_product.data[0] is
\* whichever row the store lists first
PutSelectProduct(p) ==
    /\ proc[p].pc = "put_select"
    /\ UNCHANGED <<now, ticks, search_queries, products, links, nextId, nextPid, hits, k1, k2, agent_result, call>>
    /\ LET product == proc[p].response[proc[p].i]
       IN \E outcome \in {"ok", "error"} :
            IF outcome = "error"
            THEN PutReturn(p, proc[p], PutOnException, TRUE)
            ELSE IF existing_product(product) # {}
            THEN \E e \in existing_product(product) :
                   /\ proc' = [proc EXCEPT ![p].pc = "put_link", ![p].product_id = e.id]
                   /\ UNCHANGED <<ret, upstream_runs, served>>
            ELSE /\ proc' = [proc EXCEPT ![p].pc = "put_insert"]
                 /\ UNCHANGED <<ret, upstream_runs, served>>

\* Lines 337-408: "Insert new product"
PutInsertProduct(p) ==
    /\ proc[p].pc = "put_insert"
    /\ UNCHANGED <<now, ticks, search_queries, links, nextId, hits, k1, k2, agent_result, call>>
    /\ LET product == proc[p].response[proc[p].i]
           row == [id |-> nextPid, name |-> product.name, brand |-> product.brand,
                   tier |-> product.tier, nulls |-> {}, absent |-> {}]
       IN \E outcome \in {"ok", "error", "nodata"} :
            IF outcome = "ok"
            THEN /\ products' = products \cup {row}
                 /\ nextPid' = nextPid + 1
                 /\ proc' = [proc EXCEPT ![p].pc = "put_link", ![p].product_id = nextPid]
                 /\ UNCHANGED <<ret, upstream_runs, served>>
            ELSE /\ UNCHANGED <<products, nextPid>>
                 /\ IF outcome = "error"
                    THEN PutReturn(p, proc[p], PutOnException, TRUE)
                    ELSE PutAdvance(p, TRUE, FALSE)

\* the rows of product_search_results that carry the triple of link_data;
\* n numbers the copies of one triple
Copies(link_data) ==
    {l \in links : /\ l.product_id = link_data.product_id
                   /\ l.search_query_id = link_data.search_query_id
                   /\ l.tier = link_data.tier}

\* product_search_results is unique on (search_query_id, product_id, tier):
\* the insert of a stored triple raises a duplicate-key error
LinkConflict_never(link_data) == FALSE

LinkConflict(link_data) == Copies(link_data) # {}

\* Lines 418-423: what the `except Exception` around the link insert does
\* with the exception: nothing but (for a non-duplicate) a print
LinkOnException_raise == "raise"

LinkOnException == "continue"

\* the link insert of the current element raised
PutLinkRaised(p, failed, link_fault) ==
    IF LinkOnException = "continue"
    THEN PutAdvance(p, failed, link_fault)
    ELSE PutReturn(p, [proc[p] EXCEPT !.link_fault = @ \/ link_fault],
                   PutOnException, TRUE)

\* Lines 410-423: "Link product to search".  An exception of the insert is
\* caught inside the loop: a duplicate-key error is ignored, any other
\* (missing parent row, transport) is printed, and the loop goes on.
PutInsertLink(p) ==
    /\ proc[p].pc = "put_link"
    /\ UNCHANGED <<now, ticks, search_queries, products, nextId, nextPid, hits, k1, k2, agent_result, call>>
    /\ LET link_data == [product_id |-> proc[p].product_id,
                         search_query_id |-> proc[p].search_id,
                         tier |-> proc[p].response[proc[p].i].tier]
           row == [product_id |-> link_data.product_id,
                   search_query_id |-> link_data.search_query_id,
                   tier |-> link_data.tier,
                   n |-> Cardinality(Copies(link_data)) + 1]
       IN \E outcome \in {"ok", "error"} :
            IF outcome = "ok" /\ LinkConflict(link_data)
            THEN \* "duplicate" in str(e).lower(): ignored
                 /\ UNCHANGED links
                 /\ PutLinkRaised(p, FALSE, FALSE)
            ELSE IF /\ outcome = "ok"
                    /\ \E r \in search_queries : r.id = link_data.search_query_id
            THEN /\ links' = links \cup {row}
                 /\ PutAdvance(p, FALSE, FALSE)
            ELSE \* print("Error linking product to search: ...")
                 /\ UNCHANGED links
                 /\ PutLinkRaised(p, TRUE, TRUE)

-----------------------------------------------------------------------------
(* main.py: search_products *)

\* Lines 432-508: "Step 1: Check database cache first" when db_service is
\* set, else straight to the fresh search.
SearchStart(p, q, t, mp) ==
    /\ proc[p].pc = "idle"
    /\ IF db_service
       THEN GetSelectBody(p, "handler", q, t, mp, Prior(q, t, mp))
       ELSE /\ StartUpstream(p, q, t, mp, Prior(q, t, mp))
            /\ UNCHANGED <<now, ticks, search_queries, products, links, nextId,
                           nextPid, hits, k1, k2, agent_result, call>>

\* Lines 502-698: get_adk_search answers (or raises: HTTP 500), the response
\* is built and, when db_service is set, handed to cache_search_results.
UpstreamDone(p) ==
    /\ proc[p].pc = "upstream"
    /\ LET me == proc[p]
       IN \E outcome \in {"ok", "error"} :
            IF outcome = "error"
            THEN /\ SearchReturn(p, "error")
                 /\ UNCHANGED <<now, ticks, search_queries, products, links, nextId,
                                nextPid, hits, k1, k2, agent_result, call>>
            ELSE \E search_response \in Results :
                   IF db_service
                   THEN /\ PutInsertSearchBody(p, "handler", me.query, me.tier,
                                                me.max_price, search_response, me.prior)
                        /\ UNCHANGED <<agent_result, call>>
                   ELSE /\ SearchReturn(p, "fresh")
                        /\ UNCHANGED <<now, ticks, search_queries, products, links,
                                       nextId, nextPid, hits, k1, k2, agent_result, call>>

-----------------------------------------------------------------------------
(* Environment *)

\* the clock moves on to a later instant of its schedule
Tick(limit) ==
    /\ ticks < limit
    /\ \E k \in (ticks + 1)..limit :
         /\ ticks' = k
         /\ now' = TimeAt(k)
    /\ UNCHANGED <<search_queries, products, links, nextId, nextPid, proc, ret,
                   hits, upstream_runs, served, k1, k2, agent_result, call>>

\* clear_cache.py: delete every row of search_queries (the association rows
\* go with their search row)
Purge ==
    /\ search_queries # {}
    /\ search_queries' = {}
    /\ links' = {}
    /\ hits' = [i \in DOMAIN hits |-> 0]
    /\ UNCHANGED <<now, ticks, products, nextId, nextPid, proc, ret,
                   upstream_runs, served, k1, k2, agent_result, call>>

-----------------------------------------------------------------------------
(* Specifications *)

RawQueries == {<<"a">>}

\* the counters stay within the bounds
CanGet == \A r \in search_queries : r.access_count < MaxAccess
CanPut == nextId <= MaxRows
CanSearch == upstream_runs < MaxRequests

\* One caller of DatabaseService at a time; a fresh result is stored when
\* the store holds no entry (after a purge, or at the start).
Next ==
    \/ \E q \in RawQueries : CanGet /\ GetSelect(1, q, None, NoNum)
    \/ GetUpdate(1)
    \/ \E q \in RawQueries, r \in Results :
         CanPut /\ search_queries = {} /\ PutInsertSearch(1, q, None, NoNum, r)
    \/ PutSelectProduct(1)
    \/ PutInsertProduct(1)
    \/ PutInsertLink(1)
    \/ Tick(MaxTicks)
    \/ Purge

Spec == Init /\ [][Next]_vars

\* Any sequence of calls of DatabaseService by one caller: a fresh result
\* is stored whatever the store holds, so several rows can carry one identity.
NextRows ==
    \/ \E q \in RawQueries :
         (\A r \in search_queries : r.access_count < MaxDupAccess)
         /\ GetSelect(1, q, None, NoNum)
    \/ GetUpdate(1)
    \/ \E q \in RawQueries, r \in Results :
         CanPut /\ PutInsertSearch(1, q, None, NoNum, r)
    \/ PutSelectProduct(1)
    \/ PutInsertProduct(1)
    \/ PutInsertLink(1)
    \/ Tick(MaxDupTicks)
    \/ Purge

SpecRows == Init /\ [][NextRows]_vars

\* One caller stores several results under one query and looks them up,
\* at one instant and without a purge: the same product is linked by
\* different searches under different tiers.
NextTiers ==
    \/ \E q \in RawQueries :
         (\A r \in search_queries : r.access_count < MaxDupAccess)
         /\ GetSelect(1, q, None, NoNum)
    \/ GetUpdate(1)
    \/ \E q \in RawQueries, r \in Results :
         CanPut /\ PutInsertSearch(1, q, None, NoNum, r)
    \/ PutSelectProduct(1)
    \/ PutInsertProduct(1)
    \/ PutInsertLink(1)

SpecTiers == Init /\ [][NextTiers]_vars

\* Two raw queries with the same filters: the result of one call is stored
\* under k1 and looked up under k2.
Filters == {<<None, NoNum>>, <<"good", 100>>}

InitKey ==
    /\ now = 0
    /\ ticks = 0
    /\ search_queries = {}
    /\ products = {}
    /\ links = {}
    /\ nextId = 1
    /\ nextPid = 2
    /\ proc = [p \in AllProcs |-> Idle]
    /\ ret = [p \in AllProcs |-> NoRet]
    /\ hits = [i \in 1..MaxRows |-> 0]
    /\ upstream_runs = 0
    /\ served = {}
    /\ \E q1 \in StringsUpTo(MaxLen), q2 \in StringsUpTo(MaxLen), f \in Filters :
         /\ k1 = <<q1, f[1], f[2]>>
         /\ k2 = <<q2, f[1], f[2]>>
    /\ agent_result = <<>>
    /\ call = NoCall

NextKey ==
    \/ (\A r \in search_queries : r.access_count < MaxDupAccess)
         /\ GetSelect(1, k2[1], k2[2], k2[3])
    \/ GetUpdate(1)
    \/ search_queries = {} /\ nextId = 1
         /\ PutInsertSearch(1, k1[1], k1[2], k1[3], <<Prod("good", "P1")>>)
    \/ PutSelectProduct(1)
    \/ PutInsertProduct(1)
    \/ PutInsertLink(1)

SpecKey == InitKey /\ [][NextKey]_vars

\* Concurrent requests to POST /api/search.
NextApi ==
    \E p \in AllProcs :
        \/ \E q \in RawQueries : CanSearch /\ SearchStart(p, q, None, NoNum)
        \/ UpstreamDone(p)

SpecApi == Init /\ [][NextApi]_vars

\* Requests to POST /api/search (caller 1) next to a direct caller of
\* cache_search_results (caller 2), with storage operations that may fail.
NextFresh ==
    \/ \E q \in RawQueries : CanSearch /\ SearchStart(1, q, None, NoNum)
    \/ UpstreamDone(1)
    \/ \E q \in RawQueries, r \in Results :
         CanPut /\ PutInsertSearch(2, q, None, NoNum, r)
    \/ PutSelectProduct(2)
    \/ PutInsertProduct(2)
    \/ PutInsertLink(2)

SpecFresh == Init /\ [][NextFresh]_vars

\* Concurrent direct callers of cache_search_results (several processes
\* sharing the Supabase project), with storage operations that may fail.
NextPuts ==
    \E p \in AllProcs :
        \/ \E q \in RawQueries, r \in Results :
             CanPut /\ PutInsertSearch(p, q, None, NoNum, r)
        \/ PutSelectProduct(p)
        \/ PutInsertProduct(p)
        \/ PutInsertLink(p)

SpecPuts == Init /\ [][NextPuts]_vars

\* One caller parses the agent's raw products and stores the parsed
\* response (the pipeline of search_products with the cache enabled), with
\* storage operations that may fail.
NextBatch ==
    \/ \E q \in RawQueries, raw \in RawBatches :
         CanPut /\ ParseAndCache(1, q, None, NoNum, raw)
    \/ PutSelectProduct(1)
    \/ PutInsertProduct(1)
    \/ PutInsertLink(1)

SpecBatch == Init /\ [][NextBatch]_vars

\* Concurrent direct callers of get_cached_search (several processes
\* sharing the Supabase project) on one stored entry.
NextGets ==
    \/ \E p \in AllProcs, q \in RawQueries :
         (\A r \in search_queries : r.access_count < MaxDupAccess)
         /\ GetSelect(p, q, None, NoNum)
    \/ \E p \in AllProcs : GetUpdate(p)
    \/ \E q \in RawQueries :
         nextId = 1 /\ PutInsertSearch(1, q, None, NoNum, <<Prod("good", "P1")>>)
    \/ PutSelectProduct(1)
    \/ PutInsertProduct(1)
    \/ PutInsertLink(1)
    \/ Tick(MaxDupTicks)

SpecGets == Init /\ [][NextGets]_vars

\* Gets on an entry stored before the newer columns existed: its products
\* row lacks one of the optional columns, or its search row has no
\* access_count.
InitLegacy ==
    /\ now = 0
    /\ ticks = 0
    /\ \E access_count \in {0, NoNum} :
         search_queries = {[id |-> 1, normalized_query |-> <<"a">>,
                            tier_preference |-> None, max_price |-> NoNum,
                            created_at |-> 0, last_accessed_at |-> 0,
                            access_count |-> access_count]}
    /\ \E row \in LegacyRows : products = {row}
    /\ links = {[product_id |-> 1, search_query_id |-> 1, tier |-> "good", n |-> 1]}
    /\ nextId = 2
    /\ nextPid = 2
    /\ proc = [p \in AllProcs |-> Idle]
    /\ ret = [p \in AllProcs |-> NoRet]
    /\ hits = [i \in 1..MaxRows |-> 0]
    /\ upstream_runs = 0
    /\ served = {}
    /\ k1 = <<<<>>, None, NoNum>>
    /\ k2 = <<<<>>, None, NoNum>>
    /\ agent_result = <<>>
    /\ call = NoCall

NextLegacy ==
    \/ \E q \in RawQueries :
         (\A r \in search_queries : r.access_count < MaxDupAccess)
         /\ GetSelect(1, q, None, NoNum)
    \/ GetUpdate(1)
    \/ Tick(MaxDupTicks)

SpecLegacy == InitLegacy /\ [][NextLegacy]_vars

-----------------------------------------------------------------------------
(* Claims *)

C2_HitCountsOnce ==
    /\ \A p \in AllProcs :
         (ret[p].op = "get" /\ ret[p].result = "Hit") =>
            /\ ret[p].id # 0
            /\ \A row \in search_queries :
                 row.id = ret[p].id =>
                    /\ row.access_count = ret[p].count0 + 1
                    /\ row.last_accessed_at = ret[p].at
                    /\ ret[p].items = Transformed(Items(row.id))
    /\ \A row \in search_queries :
         hits[row.id] >= 1 => row.access_count = hits[row.id]

\* access_count = 6 and age 100h: Hit, and the count becomes 7
C2_Witness ==
    /\ ret[1].op = "get" /\ ret[1].result = "Hit"
    /\ ret[1].count0 = 6 /\ ret[1].age = 100
    /\ \E row \in search_queries : row.id = ret[1].id /\ row.access_count = 7

\* C4: a get that returns Miss (no match, expired entry, or a failure during
\* the call) leaves every row of search_queries as it was.
C4_MissLeavesStoreUnchanged ==
    [][ \A p \in AllProcs :
          (ret'[p] # ret[p] /\ ret'[p].op = "get" /\ ret'[p].result = "Miss")
             => search_queries' = search_queries ]_vars

\* C5: get never raises: it returns a Hit or a Miss, and a Miss whenever a
\* storage operation or the hydration failed during the call.
C5_GetNeverRaises ==
    \A p \in AllProcs :
        ret[p].op = "get" =>
            /\ ret[p].result \in {"Hit", "Miss"}
            /\ (ret[p].failed => ret[p].result = "Miss")

\* a get whose update or hydration failed after it had selected an entry
C5_Witness ==
    ret[1].op = "get" /\ ret[1].failed /\ ret[1].id # 0 /\ ret[1].result = "Miss"

\* C7: two raw queries that differ only in letter case and in leading or
\* trailing whitespace, with equal filters, have equal keys, and the entry
\* stored under the first is the one a get under the second returns.
C7_EquivalentQueriesShareEntry ==
    LET a == strip(k1[1])
        b == strip(k2[1])
        alike == /\ Len(a) = Len(b)
                 /\ \A i \in 1..Len(a) : LowerChar(a[i]) = LowerChar(b[i])
    IN (alike /\ k1[2] = k2[2] /\ k1[3] = k2[3]) =>
          /\ get_query_hash(k1[1], k1[2], k1[3]) = get_query_hash(k2[1], k2[2], k2[3])
          /\ \A row \in search_queries : row.normalized_query = normalize_query(k2[1])
          /\ (ret[1].op = "get" /\ ~ret[1].failed /\ search_queries # {}) =>
                /\ ret[1].result = "Hit"
                /\ \E row \in search_queries : row.id = ret[1].id

\* stored under "A " (or " a", ...) and returned by a get under another spelling
C7_Witness ==
    /\ k1[1] # k2[1]
    /\ normalize_query(k1[1]) = normalize_query(k2[1])
    /\ Len(k1[1]) = MaxLen
    /\ ret[1].op = "get" /\ ret[1].result = "Hit"

\* C8: when several stored rows match a get, the row with the greatest
\* created_at is the one selected.
C8_NewestRowSelected ==
    \A p \in AllProcs : (ret[p].op = "get" /\ ret[p].id # 0) => ret[p].newest

\* C9: the store holds at most one row per identity
\* (normalized_query, tier_filter, max_price_filter).
C9_OneRowPerIdentity ==
    \A r1 \in search_queries, r2 \in search_queries :
        Identity(r1) = Identity(r2) => r1.id = r2.id

\* C3: a request for a query for which an earlier identical request was
\* answered fresh (and so stored) within the TTL is answered from the cache
\* (search_metadata.cached is true) without a second upstream search.
C3_SecondRequestFromCache ==
    \A p \in AllProcs :
        (ret[p].op = "search" /\ ret[p].prior /\ ret[p].result # "error")
            => ret[p].result = "cached"

C10_SingleFlight ==
    \A p \in AllProcs, q \in AllProcs :
        ( /\ proc[p].pc = "upstream" /\ proc[q].pc = "upstream"
          /\ Key(proc[p].query, proc[p].tier, proc[p].max_price)
               = Key(proc[q].query, proc[q].tier, proc[q].max_price) )
            => p = q

\* C11: under any interleaving of concurrent puts whose results contain a
\* product with the same (name, brand), the products table holds exactly one
\* row for that (name, brand), and every put links that one row: the product
\* id a put is about to link is the id of the only row with that name and
\* brand.
C11_AtomicInsertOrReturn ==
    /\ \A x \in products, y \in products :
         (x.name = y.name /\ x.brand = y.brand) => x.id = y.id
    /\ \A p \in AllProcs :
         proc[p].pc = "put_link" =>
            \A x \in products :
                ( /\ x.name = proc[p].response[proc[p].i].name
                  /\ x.brand = proc[p].response[proc[p].i].brand )
                    => x.id = proc[p].product_id

\* C12: with sequential callers, an upsert of a product whose (name, brand)
\* is already stored returns the id of the stored row, adds no row and
\* changes no row, whatever the other fields of the product are; an insert
\* happens only when no row has that (name, brand), so exactly one row per
\* (name, brand) exists.
C12_UpsertIdempotent ==
    [][ /\ products \subseteq products'
        /\ \A x \in products', y \in products' :
             (x.name = y.name /\ x.brand = y.brand) => x.id = y.id
        /\ \A p \in AllProcs :
             LET product == proc[p].response[proc[p].i]
             IN /\ (proc[p].pc = "put_select" /\ proc'[p].pc = "put_link") =>
                      /\ products' = products
                      /\ \E x \in products :
                           /\ x.name = product.name /\ x.brand = product.brand
                           /\ x.id = proc'[p].product_id
                /\ (proc[p].pc = "put_insert" /\ proc'[p].pc = "put_link") =>
                      \A x \in products :
                          ~(x.name = product.name /\ x.brand = product.brand) ]_vars

\* the second put found the row the first put inserted for ("P1", "B"),
\* although it carries the product under another tier
C12_Witness ==
    /\ proc[1].pc = "put_link" /\ proc[1].search_id = 2
    /\ \E x \in products :
         /\ x.id = proc[1].product_id /\ x.id >= 2
         /\ x.name = proc[1].response[proc[1].i].name
         /\ x.tier # proc[1].response[proc[1].i].tier

\* every product of `response` has a products row and an association row
\* (search_id, product_id, tier) for the tier it was listed under
Stored(response, search_id, prods, lnks) ==
    \A j \in 1..Len(response) :
        \E x \in prods, l \in lnks :
            /\ x.name = response[j].name /\ x.brand = response[j].brand
            /\ l.product_id = x.id /\ l.search_query_id = search_id
            /\ l.tier = response[j].tier

\* C13: the insert of an association (search_id, product_id, tier) that is
\* already stored changes nothing and counts as success: exactly one row
\* per triple exists, the put is not marked failed by it and goes on with
\* the next product (or returns True), and a put that returns True without
\* a failure has stored and linked every product of its result.
C13_LinkIdempotent ==
    [][ /\ \A l \in links' : l.n = 1
        /\ \A p \in AllProcs :
             LET me == proc[p]
                 link_data == [product_id |-> me.product_id,
                               search_query_id |-> me.search_id,
                               tier |-> me.response[me.i].tier]
                 after == IF proc'[p].pc = "idle" THEN ret'[p] ELSE proc'[p]
             IN /\ (me.pc = "put_link" /\ LinkConflict(link_data) /\ proc'[p] # me) =>
                      /\ links' = links
                      /\ (after.link_fault = me.link_fault => after.failed = me.failed)
                      /\ IF me.i < Len(me.response)
                         THEN proc'[p].pc = "put_select" /\ proc'[p].i = me.i + 1
                         ELSE ret'[p].op = "put" /\ ret'[p].result = "True"
                /\ ( /\ me.pc # "idle" /\ proc'[p].pc = "idle"
                     /\ ret'[p].op = "put" /\ ret'[p].result = "True"
                     /\ ~ret'[p].failed ) =>
                      Stored(me.response, me.search_id, products', links') ]_vars

\* the second of two equal products of one tier list was linked again
\* (duplicate key), and the put went on to link the third product
C13_Witness ==
    /\ proc[1].pc = "put_link" /\ proc[1].i = 3 /\ ~proc[1].failed
    /\ proc[1].response[1] = proc[1].response[2]
    /\ \E l \in links : /\ l.search_query_id = proc[1].search_id
                         /\ l.tier = proc[1].response[1].tier /\ l.n = 1

\* C14: a put during which the insert of an association raised an error
\* other than a duplicate-key violation does not report success.
C14_LinkFaultPropagated ==
    \A p \in AllProcs :
        (ret[p].op = "put" /\ ret[p].link_fault) => ret[p].result # "True"

\* C15: a put adds exactly one row to search_queries, with access_count 0,
\* and when it returns True every product of its result has a products row
\* and an association row (search_id, product_id, tier) for the tier list
\* it was in.
C15_PutStoresEveryProduct ==
    [][ \A p \in AllProcs :
          LET me == proc[p]
              added == {r \in search_queries' :
                          \A r0 \in search_queries : r0.id # r.id}
          IN /\ (me.pc = "idle" /\ proc'[p].pc = "put_select") =>
                   /\ Cardinality(added) = 1
                   /\ \A r \in added : r.id = proc'[p].search_id /\ r.access_count = 0
             /\ ( /\ me.pc # "idle" /\ proc'[p].pc = "idle"
                  /\ ret'[p].op = "put" /\ ret'[p].result = "True" ) =>
                   Stored(me.response, me.search_id, products', links') ]_vars

\* C16: the access_count of a stored search row is never negative and no
\* step lowers it while the row is stored, under any interleaving of
\* concurrent gets.
C16_AccessCountNeverDecreases ==
    [][ \A r \in search_queries, r2 \in search_queries' :
          r2.id = r.id =>
             /\ r2.access_count >= 0
             /\ r2.access_count >= r.access_count ]_vars

\* C18: a get that selected an entry younger than the shortest TTL returns
\* a Hit although stored rows lack optional newer fields: neither the
\* missing access_count (the get does not end before the update) nor a
\* missing products column (the get does not end without a Hit once its
\* update was written) turns it into a Miss.
C18_MissingFieldsStillHit ==
    [][ \A p \in AllProcs :
          /\ ( /\ proc[p].pc = "idle" /\ ret'[p] # ret[p]
               /\ ret'[p].op = "get" /\ ret'[p].id # 0
               /\ ret'[p].age <= cache_ttl_normal_hours )
                 => ret'[p].result = "Hit"
          /\ ( /\ proc[p].pc = "get_update" /\ search_queries' # search_queries
               /\ ret'[p].op = "get" )
                 => ret'[p].result = "Hit" ]_vars

\* a raw product that parse_product_list is expected to keep: it has a
\* price, and its price and its lifespan (5 when missing) are positive
ValidRaw(product_data) ==
    /\ product_data.price # NoNum /\ product_data.price > 0
    /\ (product_data.lifespan # NoNum => product_data.lifespan > 0)

C20_TierBelongsToLink ==
    [][ \A p \in AllProcs :
          /\ (proc[p].pc = "idle" /\ proc'[p].pc = "get_update") =>
                LET sel == proc'[p].sel
                IN /\ \A l \in links, x \in products :
                        (l.search_query_id = sel.id /\ x.id = l.product_id) =>
                            [tier |-> l.tier, product |-> x] \in sel.items
                   /\ \A it \in sel.items :
                        \E l \in links : /\ l.search_query_id = sel.id
                                          /\ l.product_id = it.product.id
                                          /\ l.tier = it.tier
          /\ ( /\ proc[p].pc = "get_update"
               /\ ret'[p].op = "get" /\ ret'[p].result = "Hit" ) =>
                /\ \A it \in proc[p].sel.items :
                     \E o \in ret'[p].items :
                         o.tier = it.tier /\ o.name = it.product.name
                /\ \A o \in ret'[p].items :
                     \E it \in proc[p].sel.items :
                         o.tier = it.tier /\ o.name = it.product.name ]_vars

\* a Hit returned "P1" in the list "better", the tier of the selected
\* search's link, while the products row says "good" (an earlier search
\* stored it under "good")
C20_Witness ==
    /\ ret[1].op = "get" /\ ret[1].result = "Hit"
    /\ \E o \in ret[1].items :
         o.name = "P1" /\ o.tier = "better" /\ o.product_tier = "good"
    /\ \E l \in links : l.search_query_id # ret[1].id /\ l.tier = "good"

-----------------------------------------------------------------------------
(* Catalogue lookup: get_products_by_price_range *)

\* A products row with its price column.  As in LegacyRow, the columns in
\* `nulls` are NULL; the row below stores every other column.
PricedRow(id, name, tier, price, nulls) ==
    [id |-> id, name |-> name, brand |-> "B", tier |-> tier, price |-> price,
     nulls |-> nulls, absent |-> {}]

\* what a products row may lack in the stores below
RowNulls == {{}, {"quality_data"}, {"practical_metrics"}, {"key_features"}}

\* products tables: a cheap good product and a dearer best product
Catalogues ==
    { {PricedRow(1, "P1", "good", 10, n1), PricedRow(2, "P2", "best", 20, n2)} :
        n1 \in RowNulls, n2 \in RowNulls }

Stored_column(product_data, column) ==
    column \notin product_data.nulls \cup product_data.absent

\* the Product that _transform_cached_search builds from one products row
\* (lines 138-208): quality_data and practical_metrics are rebuilt when
\* the row has them (lines 146-179) and passed to Product (198-199)
HydratedProduct(product_data) ==
    [name |-> product_data.name, brand |-> product_data.brand,
     tier |-> product_data.tier, upfront_price |-> product_data.price,
     quality_data |-> IF Stored_column(product_data, "quality_data")
                      THEN "QualityData" ELSE None,
     practical_metrics |-> IF Stored_column(product_data, "practical_metrics")
                           THEN "PracticalMetrics" ELSE None]

\* the Product that get_products_by_price_range builds from one products
\* row (lines 469-504): Product(...) is called without quality_data and
\* without practical_metrics, which models.py defaults to None
RangeProduct(product_data) ==
    [name |-> product_data.name, brand |-> product_data.brand,
     tier |-> product_data.tier, upfront_price |-> product_data.price,
     quality_data |-> None, practical_metrics |-> None]

\* the rows selected by .gte("price", min_price).lte("price", max_price)
\* and, `if tier:`, .eq("tier", tier)
PriceRangeRows(min_price, max_price, tier) ==
    { x \in products :
        /\ x.price >= min_price
        /\ x.price <= max_price
        /\ (TruthyTier(tier) => x.tier = tier) }

\* get_products_by_price_range (450-510): one select; the rows are rebuilt
\* in a single try block, so a raising execute() or one row that Product
\* rejects gives `return []`.  The list is modelled as the set of its
\* elements (the select has no ORDER BY).
get_products_by_price_range(min_price, max_price, tier) ==
    /\ \E outcome \in {"ok", "error"} :
         LET data == PriceRangeRows(min_price, max_price, tier)
             raised == outcome = "error" \/ ~(\A x \in data : RowHydrates(x))
         IN call' = [fn |-> "get_products_by_price_range",
                     min_price |-> min_price, max_price |-> max_price,
                     tier |-> tier, raised |-> raised,
                     result |-> IF raised THEN {}
                                ELSE {RangeProduct(x) : x \in data}]
    /\ UNCHANGED <<now, ticks, search_queries, products, links, nextId, nextPid,
                   proc, ret, hits, upstream_runs, served, k1, k2, agent_result>>

Prices == {0, 10, 20, 30}

InitPrice ==
    /\ now = 0
    /\ ticks = 0
    /\ search_queries = {}
    /\ products \in Catalogues
    /\ links = {}
    /\ nextId = 1
    /\ nextPid = 3
    /\ proc = [p \in AllProcs |-> Idle]
    /\ ret = [p \in AllProcs |-> NoRet]
    /\ hits = [i \in 1..MaxRows |-> 0]
    /\ upstream_runs = 0
    /\ served = {}
    /\ k1 = <<<<>>, None, NoNum>>
    /\ k2 = <<<<>>, None, NoNum>>
    /\ agent_result = <<>>
    /\ call = NoCall

NextPrice ==
    \E min_price \in Prices, max_price \in Prices, tier \in {None, "", "good", "best"} :
        get_products_by_price_range(min_price, max_price, tier)

SpecPrice == InitPrice /\ [][NextPrice]_vars

\* C21: a price-range lookup that does not raise returns exactly the stored
\* products with min <= price <= max (and the given tier), each rebuilt to
\* the Product that get's hydration rebuilds from the same row, with its
\* quality data and practical metrics when they are stored.
C21_PriceRangeRebuildsAsGet ==
    (call.fn = "get_products_by_price_range" /\ ~call.raised)
        => call.result =
             { HydratedProduct(x) :
                 x \in PriceRangeRows(call.min_price, call.max_price, call.tier) }

-----------------------------------------------------------------------------
(* Quality scorer: backend/quality_scorer.py *)

\* Texts are sequences of words (punctuation is a word of its own);
\* str.lower() maps each word, and `keyword in text` holds when the words
\* of the keyword occur in the text one after the other.
lower_word(w) ==
    CASE w = "DIY" -> "diy"
      [] w = "Easy" -> "easy"
      [] w = "Low" -> "low"
      [] w = "Medium" -> "medium"
      [] w = "Moderate" -> "moderate"
      [] w = "High" -> "high"
      [] w = "Heirloom" -> "heirloom"
      [] w = "Professional-grade" -> "professional-grade"
      [] w = "Cast" -> "cast"
      [] w = "Iron" -> "iron"
      [] OTHER -> w

text_lower(text) == [i \in 1..Len(text) |-> lower_word(text[i])]

\* keyword in text
text_in(keyword, text) ==
    \E i \in 1..(Len(text) - Len(keyword) + 1) :
        SubSeq(text, i, i + Len(keyword) - 1) = keyword

\* any(keyword in text for keyword in keywords)
any_in(keywords, text) == \E k \in 1..Len(keywords) : text_in(keywords[k], text)

\* a keyword argument that was passed and is not None
Has(kwargs, key) == key \in DOMAIN kwargs

\* product_data.get(key, default): the default stands for an absent key only
dict_get(product_data, key, default) ==
    IF key \in DOMAIN product_data THEN product_data[key] ELSE default

\* int(x * 0.NN) for an integer x: the product truncated towards zero
int_of_product(x, hundredths) ==
    IF x >= 0 THEN (x * hundredths) \div 100
    ELSE -(((-x) * hundredths) \div 100)

\* max(0, min(score, top))
clamp_to_nothing(score, top) == score

clamp(score, top) ==
    IF score > top THEN top ELSE IF score < 0 THEN 0 ELSE score

\* calculate_longevity_score, lines 67-101
calculate_longevity_score_no_top_band(lifespan_years) ==
    IF lifespan_years >= 10 THEN 32
    ELSE IF lifespan_years >= 5 THEN 24
    ELSE IF lifespan_years >= 3 THEN 16
    ELSE 8

calculate_longevity_score(lifespan_years) ==
    IF lifespan_years >= 15 THEN 40
    ELSE IF lifespan_years >= 10 THEN 32
    ELSE IF lifespan_years >= 5 THEN 24
    ELSE IF lifespan_years >= 3 THEN 16
    ELSE 8

\* calculate_failure_rate_score, lines 103-145; kwargs holds the arguments
\* working_percent, failure_percentage, reddit_mentions that are not None
calculate_failure_rate_score(kwargs) ==
    IF Has(kwargs, "working_percent")
    THEN [working_percent |-> kwargs.working_percent,
          score |-> clamp(int_of_product(kwargs.working_percent, 25), 25)]
    ELSE IF Has(kwargs, "failure_percentage")
    THEN [working_percent |-> 100 - kwargs.failure_percentage,
          score |-> clamp(int_of_product(100 - kwargs.failure_percentage, 25), 25)]
    ELSE IF Has(kwargs, "reddit_mentions") /\ kwargs.reddit_mentions # 0
            /\ kwargs.reddit_mentions > 10
    THEN [working_percent |-> 80, score |-> 20]
    ELSE [working_percent |-> 75, score |-> 19]

\* the keyword lists of calculate_repairability_score, lines 186-201
repair_high == <<<<"user-serviceable">>, <<"easy", "to", "repair">>,
                 <<"diy", "repair">>, <<"spare", "parts", "available">>>>
repair_medium_high == <<<<"professional", "repair">>, <<"authorized", "service">>,
                        <<"repairable">>>>
repair_medium == <<<<"some", "repair">>, <<"limited", "repair">>,
                   <<"basic", "maintenance">>>>
repair_low_single_words == <<<<"difficult">>, <<"proprietary">>>>

repair_low == <<<<"difficult", "to", "repair">>, <<"proprietary", "parts">>>>

\* the raw 0-100 score of a repairability text, lines 184-207
repair_score_of_text(repairability_info) ==
    LET info_lower == text_lower(repairability_info)
    IN IF any_in(repair_high, info_lower) THEN 95
       ELSE IF any_in(repair_medium_high, info_lower) THEN 75
       ELSE IF any_in(repair_medium, info_lower) THEN 55
       ELSE IF any_in(repair_low, info_lower) THEN 30
       ELSE 50

\* the raw score taken from maintenance_level, lines 209-231
repair_score_of_level_exact(maintenance_level) ==
    LET level_lower == text_lower(maintenance_level)
    IN IF level_lower = <<"low">> THEN 75
       ELSE IF level_lower = <<"medium">> THEN 50
       ELSE 40

repair_score_of_level(maintenance_level) ==
    LET level_lower == text_lower(maintenance_level)
    IN IF text_in(<<"low">>, level_lower) THEN 75
       ELSE IF text_in(<<"medium">>, level_lower) \/ text_in(<<"moderate">>, level_lower)
       THEN 50
       ELSE 40

\* calculate_repairability_score, lines 162-237; kwargs holds the arguments
\* repair_score_raw, repairability_info, maintenance_level that are not None;
\* an empty text is falsy
calculate_repairability_score(kwargs) ==
    LET repair_score_raw ==
            IF Has(kwargs, "repair_score_raw") THEN kwargs.repair_score_raw
            ELSE IF Has(kwargs, "repairability_info") /\ kwargs.repairability_info # <<>>
            THEN repair_score_of_text(kwargs.repairability_info)
            ELSE IF Has(kwargs, "maintenance_level") /\ kwargs.maintenance_level # <<>>
            THEN repair_score_of_level(kwargs.maintenance_level)
            ELSE 50
    IN [repair_score_raw |-> repair_score_raw,
        score |-> IF Has(kwargs, "repair_score_raw")
                  THEN clamp(int_of_product(repair_score_raw, 20), 20)
                  ELSE int_of_product(repair_score_raw, 20)]

\* premium_materials, lines 283-297, in the order the dict is iterated
premium_materials ==
    << [premium |-> <<"stainless", "steel">>, points |-> 33],
       [premium |-> <<"cast", "iron">>, points |-> 35],
       [premium |-> <<"carbon", "steel">>, points |-> 34],
       [premium |-> <<"forged", "steel">>, points |-> 35],
       [premium |-> <<"high-carbon", "stainless">>, points |-> 35],
       [premium |-> <<"copper">>, points |-> 30],
       [premium |-> <<"aluminum">>, points |-> 25],
       [premium |-> <<"hard-anodized", "aluminum">>, points |-> 30],
       [premium |-> <<"enameled", "cast", "iron">>, points |-> 35],
       [premium |-> <<"ceramic">>, points |-> 25],
       [premium |-> <<"glass">>, points |-> 22],
       [premium |-> <<"wood">>, points |-> 28],
       [premium |-> <<"bamboo">>, points |-> 26] >>

\* the inner loop of lines 299-308: the points of the first entry of
\* premium_materials that occurs in the material (`break`), 0 if none does
material_points(material) ==
    LET material_lower == text_lower(material)
        hits_ == { k \in 1..Len(premium_materials) :
                     text_in(premium_materials[k].premium, material_lower) }
    IN IF hits_ = {} THEN 0
       ELSE premium_materials[CHOOSE k \in hits_ : \A j \in hits_ : k <= j].points

\* the outer loop of lines 299-308: raw_score = min(raw_score + points, 100)
RECURSIVE materials_raw_score(_, _)
materials_raw_score(materials, raw_score) ==
    IF materials = <<>> THEN raw_score
    ELSE LET sum == raw_score + material_points(Head(materials))
         IN materials_raw_score(Tail(materials), IF sum > 100 THEN 100 ELSE sum)

\* lines 310-320: the estimate from the tier
tier_raw_score_two_levels(tier) ==
    IF tier = "best" THEN 80 ELSE 40

tier_raw_score(tier) ==
    IF tier = "best" THEN 80 ELSE IF tier = "better" THEN 60 ELSE 40

quality_indicators ==
    <<<<"professional-grade">>, <<"commercial", "quality">>, <<"heirloom">>,
      <<"lifetime", "warranty">>>>

\* calculate_material_quality_score, lines 252-341; kwargs holds the
\* arguments that were passed: materials (required), material_score_raw and
\* why_gem when not None, tier (default "better")
calculate_material_quality_score(kwargs) ==
    IF Has(kwargs, "material_score_raw")
    THEN [material_score_raw |-> kwargs.material_score_raw,
          score |-> clamp(int_of_product(kwargs.material_score_raw, 15), 15)]
    ELSE LET tier == dict_get(kwargs, "tier", "better")
             listed == materials_raw_score(kwargs.materials, 0)
             estimated == IF listed = 0 THEN tier_raw_score(tier) ELSE listed
             boosted == IF Has(kwargs, "why_gem") /\ kwargs.why_gem # <<>>
                           /\ any_in(quality_indicators, text_lower(kwargs.why_gem))
                        THEN (IF estimated + 10 > 100 THEN 100 ELSE estimated + 10)
                        ELSE estimated
         IN [material_score_raw |-> boosted,
             score |-> clamp(int_of_product(boosted, 15), 15)]

\* the keyword arguments calculate_quality_score passes on: a key whose
\* product_data.get(...) is None is left out
Passed(product_data, keys) ==
    [k \in {x \in keys : x \in DOMAIN product_data} |-> product_data[k]]

\* calculate_quality_score, lines 356-415
calculate_quality_score(product_data) ==
    LET longevity == calculate_longevity_score(
                         dict_get(product_data, "expected_lifespan_years", 5))
        failure_rate == calculate_failure_rate_score(
                         Passed(product_data, {"failure_percentage", "reddit_mentions"}))
        repairability == calculate_repairability_score(
                         Passed(product_data, {"repairability_info", "maintenance_level"}))
        material == calculate_material_quality_score(
                         Passed(product_data, {"why_gem"})
                         @@ [materials |-> dict_get(product_data, "materials", <<>>),
                             tier |-> dict_get(product_data, "tier", "better")])
    IN [longevity |-> longevity,
        failure_rate |-> failure_rate.score,
        repairability |-> repairability.score,
        material_quality |-> material.score,
        material_score_raw |-> material.material_score_raw,
        total |-> longevity + failure_rate.score + repairability.score + material.score]

\* QualityScore.get_grade, lines 42-61
get_grade_no_B_minus(total) ==
    IF total >= 90 THEN "A+"
    ELSE IF total >= 85 THEN "A"
    ELSE IF total >= 80 THEN "A-"
    ELSE IF total >= 75 THEN "B+"
    ELSE IF total >= 70 THEN "B"
    ELSE IF total >= 60 THEN "C+"
    ELSE IF total >= 55 THEN "C"
    ELSE "C-"

get_grade(total) ==
    IF total >= 90 THEN "A+"
    ELSE IF total >= 85 THEN "A"
    ELSE IF total >= 80 THEN "A-"
    ELSE IF total >= 75 THEN "B+"
    ELSE IF total >= 70 THEN "B"
    ELSE IF total >= 65 THEN "B-"
    ELSE IF total >= 60 THEN "C+"
    ELSE IF total >= 55 THEN "C"
    ELSE "C-"

-----------------------------------------------------------------------------
(* Scorer inputs *)

MaxLifespan == 16    \* largest lifespan scored, in years
MaxExcess == 10      \* how far a percentage or raw score leaves 0..100
MaxMaterials == 3    \* length of a materials list

Lifespans == (-2)..MaxLifespan
Percents == (-MaxExcess)..(100 + MaxExcess)

\* an optional entry of a dict: absent, or present with one of the values
Opt(key, values) == {<<>>} \cup { [k \in {key} |-> v] : v \in values }

RepairTexts ==
    { <<>>,
      <<"DIY">>, <<"diy", "repair">>, <<"friendly">>, <<"serviceable">>,
      <<"user-serviceable">>, <<"Easy", "to", "repair">>,
      <<"spare", "parts", "available">>,
      <<"professional", "repair">>, <<"authorized", "service">>,
      <<"not", "repairable">>,
      <<"some", "repair">>, <<"limited", "repair">>, <<"basic", "maintenance">>,
      <<"difficult">>, <<"proprietary">>,
      <<"difficult", "to", "repair", ",", "proprietary", "parts">>,
      <<"repairable", ",", "proprietary", "parts">>,
      <<"proprietary", "parts", ",", "diy", "repair">>,
      <<"sealed">> }

MaintenanceLevels ==
    { <<>>, <<"Low">>, <<"low">>, <<"Medium">>, <<"High">>, <<"Moderate">>,
      <<"Very", "Low">>, <<"Medium", "to", "Low">>, <<"None">> }

MaterialNames ==
    { <<"cast", "iron">>, <<"Cast", "Iron">>, <<"stainless", "steel">>,
      <<"hard-anodized", "aluminum">>, <<"bamboo">>, <<"plastic">> }

RECURSIVE MaterialLists(_)
MaterialLists(n) ==
    IF n = 0 THEN {<<>>}
    ELSE LET shorter == MaterialLists(n - 1)
         IN shorter \cup { Append(l, m) : l \in {x \in shorter : Len(x) = n - 1},
                                           m \in MaterialNames }

GemTexts ==
    { <<>>, <<"Heirloom", "quality", "construction">>,
      <<"Professional-grade", "with", "lifetime", "warranty">>,
      <<"solid", "and", "cheap">> }

Tiers == {"best", "better", "good", "premium", None}

LongevityCalls ==
    { [fn |-> "calculate_longevity_score", args |-> n, done |-> FALSE] : n \in Lifespans }

FailureRateCalls ==
    { [fn |-> "calculate_failure_rate_score", args |-> w @@ f @@ r, done |-> FALSE] :
        w \in Opt("working_percent", {0, 75, 80}),
        f \in Opt("failure_percentage", Percents),
        r \in Opt("reddit_mentions", {0, 10, 11}) }
    \cup
    { [fn |-> "calculate_failure_rate_score", args |-> w, done |-> FALSE] :
        w \in Opt("working_percent", Percents) }

RepairabilityCalls ==
    { [fn |-> "calculate_repairability_score", args |-> t @@ l, done |-> FALSE] :
        t \in Opt("repairability_info", RepairTexts),
        l \in Opt("maintenance_level", MaintenanceLevels) }
    \cup
    { [fn |-> "calculate_repairability_score", args |-> s @@ t, done |-> FALSE] :
        s \in Opt("repair_score_raw", Percents),
        t \in Opt("repairability_info", {<<"sealed">>}) }

MaterialCalls ==
    { [fn |-> "calculate_material_quality_score",
       args |-> [materials |-> m] @@ w @@ t, done |-> FALSE] :
        m \in MaterialLists(MaxMaterials),
        w \in Opt("why_gem", GemTexts),
        t \in Opt("tier", Tiers) }
    \cup
    { [fn |-> "calculate_material_quality_score",
       args |-> [materials |-> <<>>] @@ s, done |-> FALSE] :
        s \in Opt("material_score_raw", Percents) }

\* dicts given to calculate_quality_score; main.py 850-861 builds its dict
\* with every key, the gem description under "why_its_a_gem"
ProductDatas ==
    { y @@ f @@ r @@ t @@ l @@ m @@ w @@ g :
        y \in Opt("expected_lifespan_years", {-1, 0, 2, 3, 10, 15}),
        f \in Opt("failure_percentage", {-20, 25, 130}),
        r \in Opt("reddit_mentions", {11}),
        t \in Opt("repairability_info",
                  {<<>>, <<"DIY">>, <<"not", "repairable">>,
                   <<"difficult", "to", "repair", ",", "proprietary", "parts">>}),
        l \in Opt("maintenance_level", {<<"Low">>, <<"Moderate">>, <<"High">>}),
        m \in Opt("materials", MaterialLists(1)),
        w \in {<<>>}
               \cup { [k \in {key} |-> <<"Professional-grade", "with", "lifetime", "warranty">>] :
                        key \in {"why_gem", "why_its_a_gem"} },
        g \in Opt("tier", {"best", "good", None}) }

QualityCalls ==
    { [fn |-> "calculate_quality_score", args |-> d, done |-> FALSE] : d \in ProductDatas }

GradeCalls ==
    { [fn |-> "get_grade", args |-> total, done |-> FALSE] : total \in Percents }

\* the scorer is stateless: a call takes its arguments and returns
Return(fn, result) ==
    /\ call.fn = fn
    /\ ~call.done
    /\ call' = [fn |-> fn, args |-> call.args, done |-> TRUE, result |-> result]
    /\ UNCHANGED <<now, ticks, search_queries, products, links, nextId, nextPid,
                   proc, ret, hits, upstream_runs, served, k1, k2, agent_result>>

ScoreLongevity ==
    Return("calculate_longevity_score", calculate_longevity_score(call.args))

ScoreFailureRate ==
    Return("calculate_failure_rate_score", calculate_failure_rate_score(call.args))

ScoreRepairability ==
    Return("calculate_repairability_score", calculate_repairability_score(call.args))

ScoreMaterialQuality ==
    Return("calculate_material_quality_score", calculate_material_quality_score(call.args))

ScoreQuality ==
    Return("calculate_quality_score", calculate_quality_score(call.args))

Grade ==
    Return("get_grade", get_grade(call.args))

InitScorer ==
    /\ now = 0
    /\ ticks = 0
    /\ search_queries = {}
    /\ products = {}
    /\ links = {}
    /\ nextId = 1
    /\ nextPid = 1
    /\ proc = [p \in AllProcs |-> Idle]
    /\ ret = [p \in AllProcs |-> NoRet]
    /\ hits = [i \in 1..MaxRows |-> 0]
    /\ upstream_runs = 0
    /\ served = {}
    /\ k1 = <<<<>>, None, NoNum>>
    /\ k2 = <<<<>>, None, NoNum>>
    /\ agent_result = <<>>
    /\ call \in LongevityCalls \cup FailureRateCalls \cup RepairabilityCalls
                \cup MaterialCalls \cup QualityCalls \cup GradeCalls

NextScorer ==
    \/ ScoreLongevity
    \/ ScoreFailureRate
    \/ ScoreRepairability
    \/ ScoreMaterialQuality
    \/ ScoreQuality
    \/ Grade

SpecScorer == InitScorer /\ [][NextScorer]_vars

\* the last call returned from fn
Returned(fn) == call.fn = fn /\ call.done

-----------------------------------------------------------------------------
(* Claims about the scorer *)

\* C22: for every scorer input (lifespan 0 or negative, failure_percentage
\* outside 0..100, empty or unrecognised materials, any tier, any text)
\* longevity is in 0..40, failure_rate in 0..25, repairability in 0..20,
\* material_quality in 0..15, and total is their sum and in 0..100.
C22_ScoresInRange ==
    /\ Returned("calculate_quality_score") =>
         /\ call.result.longevity \in 0..40
         /\ call.result.failure_rate \in 0..25
         /\ call.result.repairability \in 0..20
         /\ call.result.material_quality \in 0..15
         /\ call.result.total = call.result.longevity + call.result.failure_rate
                                  + call.result.repairability
                                  + call.result.material_quality
         /\ call.result.total \in 0..100
    /\ Returned("calculate_longevity_score") => call.result \in 0..40
    /\ Returned("calculate_failure_rate_score") => call.result.score \in 0..25
    /\ Returned("calculate_repairability_score") => call.result.score \in 0..20
    /\ Returned("calculate_material_quality_score") => call.result.score \in 0..15

\* a product with a negative lifespan, a failure percentage above 100 and an
\* unrecognised material has been scored
C22_Witness ==
    /\ Returned("calculate_quality_score")
    /\ Has(call.args, "expected_lifespan_years") /\ call.args.expected_lifespan_years = -1
    /\ Has(call.args, "failure_percentage") /\ call.args.failure_percentage = 130
    /\ Has(call.args, "materials") /\ call.args.materials = <<<<"plastic">>>>
    /\ Has(call.args, "tier") /\ call.args.tier = None
    /\ call.result.failure_rate = 0
    /\ call.result.total = 8 + 0 + 10 + 6

\* C23 as stated: the longevity sub-score is 40 from 15 years, 32 from 10,
\* 24 from 5, 16 from 3, and floor(lifespan_years * 8/3) below 3 years
\* (2 years -> 5, 1 year -> 2, 0 years -> 0).
C23_LongevityScaledBelowThree ==
    Returned("calculate_longevity_score") =>
        call.result = IF call.args >= 15 THEN 40
                      ELSE IF call.args >= 10 THEN 32
                      ELSE IF call.args >= 5 THEN 24
                      ELSE IF call.args >= 3 THEN 16
                      ELSE (call.args * 8) \div 3

\* C23, amended: the longevity sub-score is 40 from 15 years, 32 from 10,
\* 24 from 5, 16 from 3, and 8 for every lifespan below 3 years, zero and
\* negative lifespans included.
C23_LongevityBands ==
    Returned("calculate_longevity_score") =>
        /\ (call.args >= 15 => call.result = 40)
        /\ (call.args \in 10..14 => call.result = 32)
        /\ (call.args \in 5..9 => call.result = 24)
        /\ (call.args \in 3..4 => call.result = 16)
        /\ (call.args < 3 => call.result = 8)

\* a lifespan of 2 years has been scored 8
C23_Witness ==
    Returned("calculate_longevity_score") /\ call.args = 2 /\ call.result = 8

\* round(x * 0.NN) for an integer x: the nearest integer, a half going to
\* the even neighbour
round_of_product(x, hundredths) ==
    LET a == IF x >= 0 THEN x * hundredths ELSE (-x) * hundredths
        q == a \div 100
        r == a % 100
        n == IF r < 50 THEN q
             ELSE IF r > 50 THEN q + 1
             ELSE IF q % 2 = 0 THEN q ELSE q + 1
    IN IF x >= 0 THEN n ELSE -n

\* C24: the failure-rate sub-score is round(working% * 0.25) clamped to
\* 0..25, whichever rung of the ladder (known value, 100 - failure
\* percentage, estimate 80 or 75) supplied working%: 75 -> 19 both when
\* estimated and when derived from failure_percentage = 25.
C24_FailureRateRounded ==
    Returned("calculate_failure_rate_score") =>
        call.result.score = clamp(round_of_product(call.result.working_percent, 25), 25)

\* the raw score of a text under four keyword lists in priority order
Classified(text, high, medium_high, medium, low) ==
    IF any_in(high, text_lower(text)) THEN 95
    ELSE IF any_in(medium_high, text_lower(text)) THEN 75
    ELSE IF any_in(medium, text_lower(text)) THEN 55
    ELSE IF any_in(low, text_lower(text)) THEN 30
    ELSE 50

\* a call of calculate_repairability_score with a text and no raw score
TextScored ==
    /\ Returned("calculate_repairability_score")
    /\ ~Has(call.args, "repair_score_raw")
    /\ Has(call.args, "repairability_info")
    /\ call.args.repairability_info # <<>>

\* C25 as stated: with no raw score, a text is classified by the first set
\* it matches of {user-serviceable, easy to repair, diy, serviceable,
\* friendly} -> 95, {professional repair, repairable} -> 75, {some repair,
\* limited repair, basic maintenance} -> 55, {difficult, proprietary} -> 30,
\* else 50; the sub-score is round(raw * 0.20) clamped to 0..20.
C25_RepairKeywordsAsStated ==
    TextScored =>
        /\ call.result.repair_score_raw =
             Classified(call.args.repairability_info,
                 <<<<"user-serviceable">>, <<"easy", "to", "repair">>, <<"diy">>,
                   <<"serviceable">>, <<"friendly">>>>,
                 <<<<"professional", "repair">>, <<"repairable">>>>,
                 <<<<"some", "repair">>, <<"limited", "repair">>,
                   <<"basic", "maintenance">>>>,
                 <<<<"difficult">>, <<"proprietary">>>>)
        /\ call.result.score =
             clamp(round_of_product(call.result.repair_score_raw, 20), 20)

\* C25, amended: with no raw score, a non-empty text is classified by the
\* first list of which it contains a phrase, ignoring case: {user-serviceable,
\* easy to repair, diy repair, spare parts available} -> 95, {professional
\* repair, authorized service, repairable} -> 75, {some repair, limited
\* repair, basic maintenance} -> 55, {difficult to repair, proprietary
\* parts} -> 30, else 50; the sub-score is raw * 0.20, i.e. 19, 15, 11, 6, 10.
C25_RepairKeywords ==
    TextScored =>
        /\ call.result.repair_score_raw =
             Classified(call.args.repairability_info,
                 <<<<"user-serviceable">>, <<"easy", "to", "repair">>,
                   <<"diy", "repair">>, <<"spare", "parts", "available">>>>,
                 <<<<"professional", "repair">>, <<"authorized", "service">>,
                   <<"repairable">>>>,
                 <<<<"some", "repair">>, <<"limited", "repair">>,
                   <<"basic", "maintenance">>>>,
                 <<<<"difficult", "to", "repair">>, <<"proprietary", "parts">>>>)
        /\ call.result.score * 5 = call.result.repair_score_raw
        /\ call.result.score =
             clamp(round_of_product(call.result.repair_score_raw, 20), 20)

\* the text "difficult to repair, proprietary parts" got raw 30 and score 6
C25_Witness ==
    /\ TextScored
    /\ call.args.repairability_info
         = <<"difficult", "to", "repair", ",", "proprietary", "parts">>
    /\ call.result.repair_score_raw = 30
    /\ call.result.score = 6

\* a call of calculate_repairability_score with neither a raw score nor a
\* repairability text
LevelScored ==
    /\ Returned("calculate_repairability_score")
    /\ ~Has(call.args, "repair_score_raw")
    /\ (Has(call.args, "repairability_info") => call.args.repairability_info = <<>>)

\* the maintenance level of the call, <<>> when none was supplied
LevelOf(kwargs) ==
    IF Has(kwargs, "maintenance_level") THEN text_lower(kwargs.maintenance_level)
    ELSE <<>>

\* C26 as stated: without raw score and text the sub-score comes from
\* maintenance_level alone: Low -> raw 75 (15), Medium -> raw 50 (10), High
\* or any other supplied level -> raw 40 (8); with no signal at all it is 10.
C26_LevelAsStated ==
    LevelScored =>
        LET level == LevelOf(call.args)
        IN /\ call.result.repair_score_raw =
                IF level = <<>> THEN 50
                ELSE IF level = <<"low">> THEN 75
                ELSE IF level = <<"medium">> THEN 50
                ELSE 40
           /\ call.result.score * 5 = call.result.repair_score_raw

\* C26, amended: without raw score and text, a non-empty maintenance_level
\* that contains "low" (ignoring case) gives raw 75 (15), otherwise one that
\* contains "medium" or "moderate" gives raw 50 (10), any other level (High)
\* gives raw 40 (8); with no level, or an empty one, the score is 10.
C26_LevelBySubstring ==
    LevelScored =>
        LET level == LevelOf(call.args)
            low == text_in(<<"low">>, level)
            mid == text_in(<<"medium">>, level) \/ text_in(<<"moderate">>, level)
        IN /\ (level = <<>> => call.result.score = 10)
           /\ (low => call.result.score = 15)
           /\ (mid /\ ~low => call.result.score = 10)
           /\ (level # <<>> /\ ~low /\ ~mid => call.result.score = 8)
           /\ call.result.score * 5 = call.result.repair_score_raw

\* the level "Moderate" was scored from the level alone: raw 50, score 10
C26_Witness ==
    /\ LevelScored
    /\ Has(call.args, "maintenance_level")
    /\ call.args.maintenance_level = <<"Moderate">>
    /\ call.result.repair_score_raw = 50
    /\ call.result.score = 10

\* the points of the entry of premium_materials that a material names: of
\* the entries occurring in it, the one with the longest name
named_material_points(material) ==
    LET material_lower == text_lower(material)
        named == { k \in 1..Len(premium_materials) :
                     text_in(premium_materials[k].premium, material_lower) }
    IN IF named = {} THEN 0
       ELSE premium_materials[CHOOSE k \in named :
                \A j \in named : Len(premium_materials[j].premium)
                                   <= Len(premium_materials[k].premium)].points

RECURSIVE named_points_sum(_)
named_points_sum(materials) ==
    IF materials = <<>> THEN 0
    ELSE named_material_points(Head(materials)) + named_points_sum(Tail(materials))

\* a call of calculate_material_quality_score without a raw score
MaterialsScored ==
    /\ Returned("calculate_material_quality_score")
    /\ ~Has(call.args, "material_score_raw")

\* the gem description of the call contains a quality indicator
GemBonus(kwargs) ==
    /\ Has(kwargs, "why_gem")
    /\ any_in(quality_indicators, text_lower(kwargs.why_gem))

\* C27: when materials are supplied (each naming a material of the table),
\* the raw material score is the sum of the points of the materials named
\* (stainless steel 33, cast iron 35, aluminum 25, hard-anodized aluminum 30,
\* ...), capped at 100, plus 10 (capped at 100) when the gem description has
\* a quality indicator; the sub-score is round(raw * 0.15) clamped to 0..15
\* (cast iron + stainless steel + heirloom text -> raw 78 -> 12).
C27_MaterialPointsSummed ==
    ( /\ MaterialsScored
      /\ call.args.materials # <<>>
      /\ \A i \in 1..Len(call.args.materials) :
            named_material_points(call.args.materials[i]) > 0 )
    => LET sum == named_points_sum(call.args.materials)
           capped == IF sum > 100 THEN 100 ELSE sum
           raw == IF GemBonus(call.args)
                  THEN (IF capped + 10 > 100 THEN 100 ELSE capped + 10)
                  ELSE capped
       IN /\ call.result.material_score_raw = raw
          /\ call.result.score = clamp(round_of_product(raw, 15), 15)

\* a call of calculate_material_quality_score with an empty materials list
\* and no raw score
NoMaterialsScored ==
    /\ MaterialsScored
    /\ call.args.materials = <<>>

\* a call of calculate_quality_score for a product without materials
NoMaterialsProductScored ==
    /\ Returned("calculate_quality_score")
    /\ dict_get(call.args, "materials", <<>>) = <<>>

\* C28 as stated: with no materials (and no quality indicator in the gem
\* description) the raw material score is 80 for tier best, 60 for better,
\* 40 for good, and an unspecified tier counts as good (raw 40, score 6);
\* the sub-score is round(raw * 0.15).
C28_UnspecifiedTierIsGood ==
    /\ (NoMaterialsScored /\ ~GemBonus(call.args)
          /\ dict_get(call.args, "tier", None) \in {"best", "better", "good", None})
       => LET tier == dict_get(call.args, "tier", None)
              raw == IF tier = "best" THEN 80 ELSE IF tier = "better" THEN 60 ELSE 40
          IN /\ call.result.material_score_raw = raw
             /\ call.result.score = round_of_product(raw, 15)
    /\ (NoMaterialsProductScored /\ ~GemBonus(call.args)
          /\ dict_get(call.args, "tier", None) \in {"best", "better", "good", None})
       => LET tier == dict_get(call.args, "tier", None)
              raw == IF tier = "best" THEN 80 ELSE IF tier = "better" THEN 60 ELSE 40
          IN /\ call.result.material_score_raw = raw
             /\ call.result.material_quality = round_of_product(raw, 15)

\* the estimate and sub-score of the amended C28
TierEstimate(kwargs, raw, score) ==
    LET tier == dict_get(kwargs, "tier", "better")
        base == IF tier = "best" THEN 80 ELSE IF tier = "better" THEN 60 ELSE 40
    IN /\ raw = IF GemBonus(kwargs) THEN base + 10 ELSE base
       /\ score * 100 <= raw * 15
       /\ raw * 15 < (score + 1) * 100
       /\ (~GemBonus(kwargs) => score = round_of_product(raw, 15))

\* C28, amended: with no materials the raw material score is 80 for tier
\* best, 60 for better and for a tier that is not passed at all, 40 for good
\* and any other passed value (None included), plus 10 when the why_gem text
\* has a quality indicator; the sub-score is int(raw * 0.15): 12, 9, 6
\* without the bonus.
C28_TierEstimate ==
    /\ NoMaterialsScored =>
         TierEstimate(call.args, call.result.material_score_raw, call.result.score)
    /\ NoMaterialsProductScored =>
         TierEstimate(call.args, call.result.material_score_raw,
                      call.result.material_quality)

\* no materials, no tier and no gem description: raw 60, score 9
C28_Witness ==
    /\ NoMaterialsScored
    /\ ~Has(call.args, "tier")
    /\ ~Has(call.args, "why_gem")
    /\ call.result.material_score_raw = 60
    /\ call.result.score = 9

\* C29: when a product scored through calculate_quality_score carries, under
\* the name why_its_a_gem, a description with a quality indicator
\* ("Professional-grade", "lifetime warranty"), its raw material score
\* includes the +10 bonus.
C29_GemDescriptionUsed ==
    ( /\ Returned("calculate_quality_score")
      /\ Has(call.args, "why_its_a_gem")
      /\ any_in(quality_indicators, text_lower(call.args.why_its_a_gem)) )
    => LET listed == materials_raw_score(dict_get(call.args, "materials", <<>>), 0)
           base == IF listed = 0
                   THEN tier_raw_score(dict_get(call.args, "tier", "better"))
                   ELSE listed
       IN call.result.material_score_raw
            = IF base + 10 > 100 THEN 100 ELSE base + 10

\* the letter grades from the lowest to the highest
GradeOrder == <<"C-", "C", "C+", "B-", "B", "B+", "A-", "A", "A+">>

GradeRank(grade) == CHOOSE i \in 1..Len(GradeOrder) : GradeOrder[i] = grade

\* C30: the grade depends on total alone with the thresholds >= 90 A+,
\* >= 85 A, >= 80 A-, >= 75 B+, >= 70 B, >= 65 B-, >= 60 C+, >= 55 C,
\* otherwise C-; every total gets exactly one grade, and a higher total
\* never gets a lower grade.
C30_GradeThresholds ==
    Returned("get_grade") =>
        LET total == call.args
            grade == call.result
        IN /\ \E i \in 1..Len(GradeOrder) : GradeOrder[i] = grade
           /\ (grade = "A+") = (total >= 90)
           /\ (grade = "A") = (total >= 85 /\ total < 90)
           /\ (grade = "A-") = (total >= 80 /\ total < 85)
           /\ (grade = "B+") = (total >= 75 /\ total < 80)
           /\ (grade = "B") = (total >= 70 /\ total < 75)
           /\ (grade = "B-") = (total >= 65 /\ total < 70)
           /\ (grade = "C+") = (total >= 60 /\ total < 65)
           /\ (grade = "C") = (total >= 55 /\ total < 60)
           /\ (grade = "C-") = (total < 55)
           /\ \A lesser \in 0..100 :
                lesser <= total => GradeRank(get_grade(lesser)) <= GradeRank(grade)

\* a total of 65 was graded B-
C30_Witness ==
    Returned("get_grade") /\ call.args = 65 /\ call.result = "B-"

-----------------------------------------------------------------------------
(* Expiry time as a function of the access count *)

\* creation times of an entry, in hours
CreatedAts == {0, 24, 100}

\* pairs of access counts of one entry created at created_at
TtlCalls ==
    { [fn |-> "_get_dynamic_ttl",
       args |-> [created_at |-> c, a |-> a, b |-> b], done |-> FALSE] :
        c \in CreatedAts, a \in 0..MaxAccess, b \in 0..MaxAccess }

\* the time from which get_cached_search treats the entry as expired
\* (line 103: age_hours > ttl_hours), for each of the two counts
ExpiryTimes ==
    Return("_get_dynamic_ttl",
           [expiry_a |-> call.args.created_at + _get_dynamic_ttl(call.args.a),
            expiry_b |-> call.args.created_at + _get_dynamic_ttl(call.args.b)])

InitTtl ==
    /\ now = 0
    /\ ticks = 0
    /\ search_queries = {}
    /\ products = {}
    /\ links = {}
    /\ nextId = 1
    /\ nextPid = 1
    /\ proc = [p \in AllProcs |-> Idle]
    /\ ret = [p \in AllProcs |-> NoRet]
    /\ hits = [i \in 1..MaxRows |-> 0]
    /\ upstream_runs = 0
    /\ served = {}
    /\ k1 = <<<<>>, None, NoNum>>
    /\ k2 = <<<<>>, None, NoNum>>
    /\ agent_result = <<>>
    /\ call \in TtlCalls

NextTtl == ExpiryTimes

SpecTtl == InitTtl /\ [][NextTtl]_vars

-----------------------------------------------------------------------------
(* Scoring sessions: repeated calls, through the shared scorer or not *)

MaxCalls == 3        \* calls of calculate_quality_score in one session

\* QualityScorer(): the class has no __init__ and no attributes
QualityScorer == [class |-> "QualityScorer"]

\* get_quality_scorer, lines 419-427: the module-level _scorer_instance
\* (<<>> while it is None) is created on first use and then reused
get_quality_scorer(_scorer_instance) ==
    IF _scorer_instance = <<>> THEN <<QualityScorer>> ELSE _scorer_instance

\* self.calculate_quality_score(product_data), lines 356-415: the result
\* and the instance after the call; no statement reads or assigns an
\* attribute of self
score_on_memo(self, product_data) ==
    [result |-> IF "last" \in DOMAIN self THEN self.last
                ELSE calculate_quality_score(product_data),
     self |-> [last |-> calculate_quality_score(product_data)] @@ self]

score_on(self, product_data) ==
    [result |-> calculate_quality_score(product_data), self |-> self]

\* product dicts scored in a session
SessionInputs ==
    { [expected_lifespan_years |-> 20, materials |-> <<<<"cast", "iron">>>>,
       tier |-> "best"],
      [expected_lifespan_years |-> 2, failure_percentage |-> 25,
       maintenance_level |-> <<"High">>],
      [repairability_info |-> <<"diy", "repair">>, tier |-> "good"] }

NoSession == [fn |-> "session", scorer_instance |-> <<>>, log |-> <<>>]

\* main.py 851-852: quality_scorer = get_quality_scorer();
\* quality_scorer.calculate_quality_score({...})
ScoreShared(product_data) ==
    /\ call.fn = "session"
    /\ Len(call.log) < MaxCalls
    /\ LET instance == get_quality_scorer(call.scorer_instance)
           done == score_on(instance[1], product_data)
       IN call' = [fn |-> "session",
                   scorer_instance |-> <<done.self>>,
                   log |-> Append(call.log, [input |-> product_data,
                                             shared |-> TRUE,
                                             result |-> done.result])]
    /\ UNCHANGED <<now, ticks, search_queries, products, links, nextId, nextPid,
                   proc, ret, hits, upstream_runs, served, k1, k2, agent_result>>

\* QualityScorer().calculate_quality_score({...}), as the tests call it
ScoreFresh(product_data) ==
    /\ call.fn = "session"
    /\ Len(call.log) < MaxCalls
    /\ LET done == score_on(QualityScorer, product_data)
       IN call' = [call EXCEPT !.log = Append(@, [input |-> product_data,
                                                   shared |-> FALSE,
                                                   result |-> done.result])]
    /\ UNCHANGED <<now, ticks, search_queries, products, links, nextId, nextPid,
                   proc, ret, hits, upstream_runs, served, k1, k2, agent_result>>

InitSession ==
    /\ now = 0
    /\ ticks = 0
    /\ search_queries = {}
    /\ products = {}
    /\ links = {}
    /\ nextId = 1
    /\ nextPid = 1
    /\ proc = [p \in AllProcs |-> Idle]
    /\ ret = [p \in AllProcs |-> NoRet]
    /\ hits = [i \in 1..MaxRows |-> 0]
    /\ upstream_runs = 0
    /\ served = {}
    /\ k1 = <<<<>>, None, NoNum>>
    /\ k2 = <<<<>>, None, NoNum>>
    /\ agent_result = <<>>
    /\ call = NoSession

NextSession ==
    \/ \E product_data \in SessionInputs : ScoreShared(product_data)
    \/ \E product_data \in SessionInputs : ScoreFresh(product_data)

SpecSession == InitSession /\ [][NextSession]_vars

-----------------------------------------------------------------------------
(* Round trip: a put, then a get of the same key *)

\* the result stored by the puts of the round trip
RoundTrip == <<Prod("better", "P1"), Prod("best", "P2")>>

\* what a Hit built from `response` holds: per tier list the (name, brand)
\* of its products
TierLists(response) ==
    { [tier |-> response[i].tier, name |-> response[i].name,
       brand |-> response[i].brand] : i \in 1..Len(response) }

\* the same view of the items a get returned
ReturnedLists(items) ==
    { [tier |-> it.tier, name |-> it.name, brand |-> it.brand] : it \in items }

InitRound ==
    /\ Init
    /\ products = {}

\* Caller 1 stores the result, caller 2 looks it up; a call starts only
\* when the other caller is idle, so puts and gets do not overlap.
NextRound ==
    \/ \E q \in RawQueries :
         CanPut /\ proc[2].pc = "idle" /\ PutInsertSearch(1, q, None, NoNum, RoundTrip)
    \/ PutSelectProduct(1)
    \/ PutInsertProduct(1)
    \/ PutInsertLink(1)
    \/ \E q \in RawQueries :
         /\ proc[1].pc = "idle"
         /\ \A r \in search_queries : r.access_count < MaxDupAccess
         /\ GetSelect(2, q, None, NoNum)
    \/ GetUpdate(2)
    \/ Tick(MaxDupTicks)

SpecRound == InitRound /\ [][NextRound]_vars

\* C33: after put(k, r) reported ok (and stored every product and link),
\* the next get(k) within 24 hours, when no storage operation of the get
\* fails, returns a Hit whose tier lists hold exactly the (name, brand)
\* products that r had in each tier, even if an older expired entry for k
\* is also stored.
C33_RoundTrip ==
    [][ ( /\ ret'[2] # ret[2]
          /\ ret'[2].op = "get"
          /\ ~ret'[2].failed
          /\ ret[1].op = "put" /\ ret[1].result = "True"
          /\ ~ret[1].failed /\ ~ret[1].link_fault
          /\ \E r \in search_queries :
                r.id = ret[1].id /\ now - r.created_at <= cache_ttl_normal_hours )
        => ( /\ ret'[2].result = "Hit"
             /\ ReturnedLists(ret'[2].items) = TierLists(RoundTrip) ) ]_vars

-----------------------------------------------------------------------------
(* A get while a put is under way, or after a put that failed *)

\* Caller 1 stores one result, with storage operations that may fail;
\* caller 2 looks the key up at any moment.
NextPartial ==
    \/ \E q \in RawQueries :
         nextId = 1 /\ PutInsertSearch(1, q, None, NoNum, RoundTrip)
    \/ PutSelectProduct(1)
    \/ PutInsertProduct(1)
    \/ PutInsertLink(1)
    \/ \E q \in RawQueries :
         (\A r \in search_queries : r.access_count < MaxAccess)
         /\ GetSelect(2, q, None, NoNum)
    \/ GetUpdate(2)

SpecPartial == InitRound /\ [][NextPartial]_vars

\* C34: a get never returns a Hit assembled from a put that has not
\* completed successfully: a Hit holds all the products of the put, never
\* only a subset (possibly none) of them.
C34_NoPartialHit ==
    \A p \in AllProcs :
        (ret[p].op = "get" /\ ret[p].result = "Hit")
            => ReturnedLists(ret[p].items) = TierLists(RoundTrip)

-----------------------------------------------------------------------------
(* Lookups under other filters than the entry was stored with *)

TierFilters == {None, "good"}
PriceFilters == {NoNum, 50, 100}

\* One caller stores results of one query under some filters and looks the
\* query up under some filters.
NextIdentity ==
    \/ \E q \in RawQueries, t \in TierFilters, mp \in PriceFilters :
         CanPut /\ PutInsertSearch(1, q, t, mp, <<Prod("good", "P1")>>)
    \/ PutSelectProduct(1)
    \/ PutInsertProduct(1)
    \/ PutInsertLink(1)
    \/ \E q \in RawQueries, t \in TierFilters, mp \in PriceFilters :
         (\A r \in search_queries : r.access_count < MaxDupAccess)
         /\ GetSelect(1, q, t, mp)
    \/ GetUpdate(1)

SpecIdentity == InitRound /\ [][NextIdentity]_vars

\* C35: a Hit returned by get(q, t, p) is an entry whose identity is exactly
\* (normalize(q), t, p): not an entry stored under a tier filter when the
\* get has none, nor one stored under another max price.
C35_HitHasTheKey ==
    [][ \A p \in AllProcs :
          ( /\ proc[p].pc = "get_update"
            /\ ret'[p].op = "get" /\ ret'[p].result = "Hit" )
          => \E r \in search_queries :
                /\ r.id = proc[p].sel.id
                /\ Identity(r) = Key(proc[p].query, proc[p].tier, proc[p].max_price) ]_vars

-----------------------------------------------------------------------------
(* Lookups of an entry around its expiry *)

MaxExpiryTicks == 3    \* clock positions while an entry passes its expiry
MaxExpiryAccess == 3   \* gets are issued while the stored counts are below this

\* One entry is stored and concurrent callers look its query up while the
\* clock moves on.
NextExpiry ==
    \/ \E q \in RawQueries :
         nextId = 1 /\ PutInsertSearch(1, q, None, NoNum, <<Prod("good", "P1")>>)
    \/ PutSelectProduct(1)
    \/ PutInsertProduct(1)
    \/ PutInsertLink(1)
    \/ \E p \in AllProcs, q \in RawQueries :
         (\A r \in search_queries : r.access_count < MaxExpiryAccess)
         /\ GetSelect(p, q, None, NoNum)
    \/ \E p \in AllProcs : GetUpdate(p)
    \/ Tick(MaxExpiryTicks)

SpecExpiry == InitRound /\ [][NextExpiry]_vars

\* C36: once a get has returned Miss for an entry because it was expired, no
\* get that starts at a later hour returns that entry as a Hit.
C36_ExpiryIsPermanent ==
    [][ \A p \in AllProcs, q \in AllProcs :
          ( /\ ret[q].op = "get" /\ ret[q].result = "Miss" /\ ret[q].id # 0
            /\ ~ret[q].failed
            /\ proc[p].pc = "get_update"
            /\ proc[p].sel.age > ret[q].age
            /\ ret'[p].op = "get" /\ ret'[p].result = "Hit" )
          => ret'[p].id # ret[q].id ]_vars

-----------------------------------------------------------------------------
(* PopularSearchService *)

MaxPopularLimit == 2   \* largest limit passed to get_popular_searches
MaxSearchCount == 2    \* search_count reached by a tracked term
MaxHalfHours == 3      \* half hours the service's clock moves on

\* self.cache_ttl_minutes
cache_ttl_minutes == 60

\* the categories track_search accepts
TrackedCategories ==
    {"cookware", "knives", "bakeware", "small_appliances", "kitchen_tools"}

PopularCategories == {"cookware", "knives", "other"}
PopularTerms == {<<"a">>, <<" ", "a">>, <<"b">>}

\* PopularSearchService(): an empty cache; the table popular_search_terms
\* starts empty.  minutes is datetime.now().
NewPopularSearchService ==
    [fn |-> "PopularSearchService",
     table |-> {},
     cache |-> [c \in PopularCategories |-> <<>>],
     minutes |-> 0,
     category |-> None, limit |-> 0, result |-> <<>>, ok |-> TRUE]

\* get_cached_popular_searches: <<data>> when cached and not expired, <<>>
\* for None
get_cached_popular_searches(self, category) ==
    IF self.cache[category] # <<>>
       /\ self.minutes - self.cache[category][1].cached_at < cache_ttl_minutes
    THEN <<self.cache[category][1].data>>
    ELSE <<>>

\* set_cached_popular_searches
set_cached_popular_searches(self, category, data) ==
    [self.cache EXCEPT ![category] = <<[data |-> data, cached_at |-> self.minutes]>>]

\* select query_term, search_count where category = ... order by
\* search_count desc limit ...: rows of equal count come in any order
TopRows(table, category, limit) ==
    LET S == {r \in table : r.category = category}
        k == IF Cardinality(S) < limit THEN Cardinality(S) ELSE limit
    IN { d \in [1..k -> S] :
           /\ \A i \in 1..k, j \in 1..k : i < j =>
                 d[i] # d[j] /\ d[i].search_count >= d[j].search_count
           /\ \A r \in S : (\A i \in 1..k : d[i] # r) =>
                 \A i \in 1..k : d[i].search_count >= r.search_count }

\* track_search(query_term, category)
track_search(query_term, category) ==
    /\ call.fn # "none"
    /\ LET term == strip(query_term)
           existing == {r \in call.table : r.query_term = term /\ r.category = category}
           done(table, cache, ok) ==
               call' = [call EXCEPT !.fn = "track_search", !.table = table,
                                    !.cache = cache, !.category = category,
                                    !.limit = 0, !.result = <<>>, !.ok = ok]
       IN IF category \notin TrackedCategories
          THEN done(call.table, call.cache, FALSE)
          ELSE \E outcome \in {"ok", "error"} :
                 IF outcome = "error"
                 THEN done(call.table, call.cache, FALSE)
                 ELSE /\ \A r \in existing : r.search_count < MaxSearchCount
                      /\ \E new_table \in
                            IF existing # {}
                            THEN { (call.table \ {e})
                                     \cup {[e EXCEPT !.search_count = @ + 1]} : e \in existing }
                            ELSE { call.table \cup {[query_term |-> term,
                                                     category |-> category,
                                                     search_count |-> 1]} } :
                           done(new_table, [call.cache EXCEPT ![category] = <<>>], TRUE)
    /\ UNCHANGED <<now, ticks, search_queries, products, links, nextId, nextPid,
                   proc, ret, hits, upstream_runs, served, k1, k2, agent_result>>

\* get_popular_searches(category, limit)
get_popular_searches(category, limit) ==
    /\ call.fn # "none"
    /\ LET cached == get_cached_popular_searches(call, category)
           done(cache, result, ok) ==
               call' = [call EXCEPT !.fn = "get_popular_searches", !.cache = cache,
                                    !.category = category, !.limit = limit,
                                    !.result = result, !.ok = ok]
       IN IF cached # <<>>
          THEN done(call.cache, cached[1], TRUE)
          ELSE \E outcome \in {"ok", "error"} :
                 IF outcome = "error"
                 THEN done(call.cache, <<>>, FALSE)
                 ELSE \E data \in TopRows(call.table, category, limit) :
                        IF data = <<>>
                        THEN done(call.cache, <<>>, TRUE)
                        ELSE LET results == [i \in 1..Len(data) |->
                                               [term |-> data[i].query_term,
                                                count |-> data[i].search_count]]
                             IN done(set_cached_popular_searches(call, category, results),
                                     results, TRUE)
    /\ UNCHANGED <<now, ticks, search_queries, products, links, nextId, nextPid,
                   proc, ret, hits, upstream_runs, served, k1, k2, agent_result>>

\* datetime.now() moves on by half an hour
PopularTick ==
    /\ call.fn # "none"
    /\ call.minutes < MaxHalfHours * 30
    /\ call' = [call EXCEPT !.minutes = @ + 30]
    /\ UNCHANGED <<now, ticks, search_queries, products, links, nextId, nextPid,
                   proc, ret, hits, upstream_runs, served, k1, k2, agent_result>>

InitPopular ==
    /\ now = 0
    /\ ticks = 0
    /\ search_queries = {}
    /\ products = {}
    /\ links = {}
    /\ nextId = 1
    /\ nextPid = 1
    /\ proc = [p \in AllProcs |-> Idle]
    /\ ret = [p \in AllProcs |-> NoRet]
    /\ hits = [i \in 1..MaxRows |-> 0]
    /\ upstream_runs = 0
    /\ served = {}
    /\ k1 = <<<<>>, None, NoNum>>
    /\ k2 = <<<<>>, None, NoNum>>
    /\ agent_result = <<>>
    /\ call = NewPopularSearchService

NextPopular ==
    \/ \E query_term \in PopularTerms, category \in PopularCategories :
         track_search(query_term, category)
    \/ \E category \in PopularCategories, limit \in 1..MaxPopularLimit :
         get_popular_searches(category, limit)
    \/ PopularTick

SpecPopular == InitPopular /\ [][NextPopular]_vars

\* C37: get_popular_searches(category, limit) returns at most limit items,
\* also when it answers from the per-category cache that a call with a
\* larger limit filled.
C37_AtMostLimit ==
    call.fn = "get_popular_searches" => Len(call.result) <= call.limit

====
